---- MODULE Spec2Model ----
(***************************************************************************)
(* The transcription worker of MIRX562/skriptor-worker as a state machine. *)
(*                                                                         *)
(* The repository holds two worker programs that consume the same queue:   *)
(*   impl = "main"    src/src/main.py driving JobProcessor                 *)
(*                    (src/src/job_processor.py and its collaborators)     *)
(*   impl = "legacy"  src/worker.py, the single-file worker loop           *)
(* One worker process is modelled.  It pops messages from the work queue   *)
(* and runs each through its pipeline, one step per call that can be       *)
(* observed from outside (a store call, a collaborator call).              *)
(*                                                                         *)
(* The shared store (Redis), the object storage (MinIO), the speech        *)
(* engines and the database are collaborators: each call returns or        *)
(* raises.  Store calls raise nondeterministically, at most MaxStoreFaults *)
(* times in a run; the other collaborators raise as the job's environment  *)
(* (env) or a nondeterministic choice at the call decides.                 *)
(*                                                                         *)
(* Specifications:                                                         *)
(*   Spec      one worker process, either program, from an empty store     *)
(*   TailSpec  process_transcription_job from the return of                *)
(*             _transcribe_audio (line 43) to its own return               *)
(*   MergeSpec the segment merger applied to bounded labelled transcripts  *)
(*   ConcSpec  MaxWorkers processes of main.py, one store command a step   *)
(*   TimingSpec   the segment merger on words with arbitrary times         *)
(*   MessageSpec  the texts of the failure reports, for exception          *)
(*                messages of 0..MaxMessage characters                     *)
(***************************************************************************)
EXTENDS Integers, Sequences, FiniteSets, TLC

\* ---------------------------------------------------------------- bounds
MaxMsgs == 2
MaxStoreFaults == 1
MaxWords == 3
MaxTime == 2

\* ------------------------------------------------------- program constants
\* the expiry of the status key: update_progress, expire(..., 86400)
STATUS_TTL == 86400
\* the expiry of the result and summary keys: expire(..., 86400 * 7)
RESULT_TTL == 86400 * 7
\* a key without expiry (SET drops the expiry a key had)
NoTTL == 0 - 1

Ids == 1..MaxMsgs
NoId == 0
\* progress=None of an event
NoProgress == 0 - 1

\* ------------------------------------------------------------- messages
\* A queue message: undecodable bytes, JSON without "filename", or a
\* well-formed job.  id is the message's transcriptionId/id.
Message(n) ==
    { [id |-> n, kind |-> "undecodable", isSpeakerDiarized |-> FALSE],
      [id |-> n, kind |-> "no_filename", isSpeakerDiarized |-> FALSE] }
    \cup { [id |-> n, kind |-> "job", isSpeakerDiarized |-> d] : d \in BOOLEAN }

NoJob == [id |-> NoId, kind |-> "none", isSpeakerDiarized |-> FALSE]

\* The queues the backend may have filled: 1..MaxMsgs messages, ids distinct.
Queues ==
    UNION { { q \in [1..n -> UNION { Message(i) : i \in Ids }] :
                \A i \in 1..n : q[i].id = i } : n \in 1..MaxMsgs }

\* The environment a job meets: whether the optional collaborators work.
Envs == [diarizer : {"ok", "fail"}, summarizer : {"ok", "fail"}]
Healthy == [diarizer |-> "ok", summarizer |-> "ok"]

Event(status, progress) == [status |-> status, progress |-> progress]
NoEvent == Event("none", NoProgress)
NoKey == [event |-> NoEvent, ttl |-> NoTTL]
NoResult == [shape |-> "none", ttl |-> NoTTL]
NoSummary == [segments |-> 0 - 1, speakers |-> 0 - 1, ttl |-> NoTTL]
\* a name that is not bound ('speaker_count' in locals() is False)
Undefined == 0 - 1
\* None of Python; a key a dict does not carry reads as None through .get().
None == "None"
\* a dict without the key (distinct from the key holding None)
Absent == "Absent"

VARIABLES
    impl,              \* which worker program runs
    queue,             \* transcription:queue, brpop takes the last element
    env,               \* per job: the collaborators' health
    pc,                \* the worker's position
    job,               \* the message being handled
    exc,               \* where the exception in flight was raised
    transcription_id,  \* the variable transcription_id
    events,            \* per job: what was published on transcription:progress:<id>
    statusKey,         \* per job: transcription:status:<id>
    timing,            \* per job: the fields of transcription:timing:<id>
    active,            \* transcription:active_jobs
    resultKey,         \* per job: transcription:result:<id>
    summaryKey,        \* per job: transcription:summary:<id>
    dbStatus,          \* per job: status of its row of table transcriptions
    dbSegments,        \* per job: its rows of table segments
    result,            \* the variable result (its "segments")
    summary,           \* process_transcription_job: the variable summary
    speaker_count,     \* worker.py: the variable speaker_count
    transcribed,       \* per job: what the speech engine returned for it
    files,             \* the temporary files on disk, by the job that made them
    sent,              \* per id: the message the backend queued (never changes)
    raised,            \* per job: the collaborators that raised during it
    failedAt,          \* per job: the step whose exception ended its pipeline
    exit,              \* per job: how control came back to the loop
    storeFaults        \* the store calls that raised so far

vars == <<impl, queue, env, pc, job, exc, transcription_id, events, statusKey,
          timing, active, resultKey, summaryKey, dbStatus, dbSegments, result,
          summary, speaker_count, transcribed, files, sent, raised, failedAt, exit,
          storeFaults>>

\* ------------------------------------------------------------ the store
\* The outcomes of a run of store calls: all return, or one of them raises.
StoreOutcomes(calls) ==
    {"ok"} \cup (IF storeFaults < MaxStoreFaults THEN calls ELSE {})

CountFault(r) ==
    storeFaults' = IF r = "ok" THEN storeFaults ELSE storeFaults + 1

\* An exception raised at the step pc (r # "ok") outside the error handling:
\* it ends the pipeline of the message being handled.
Throw(r) ==
    /\ exc' = IF r = "ok" THEN "none" ELSE pc
    /\ failedAt' = IF r = "ok" \/ job = NoJob THEN failedAt
                   ELSE [failedAt EXCEPT ![job.id] = pc]

\* An exception raised at the step pc of the error handling.
ThrowInHandler(r) ==
    /\ exc' = IF r = "ok" THEN "none" ELSE pc
    /\ UNCHANGED failedAt

Raise(id, r, what) ==
    raised' = IF r = "ok" THEN raised ELSE [raised EXCEPT ![id] = @ \cup {what}]

\* update_progress without the expire call: publish and set only.
update_progress_no_expiry(id, status, progress, r) ==
    LET ev == Event(status, progress) IN
    /\ events' = IF r = "publish" THEN events
                 ELSE [events EXCEPT ![id] = Append(@, ev)]
    /\ statusKey' =
         IF r \in {"publish", "set"} THEN statusKey
         ELSE [statusKey EXCEPT ![id] = [event |-> ev, ttl |-> NoTTL]]

\* ProgressTracker.update_progress / worker.update_progress: publish, set,
\* expire, in this order; r names the call that raises ("ok": none).
update_progress(id, status, progress, r) ==
    LET ev == Event(status, progress) IN
    /\ events' = IF r = "publish" THEN events
                 ELSE [events EXCEPT ![id] = Append(@, ev)]
    /\ statusKey' =
         IF r \in {"publish", "set"} THEN statusKey
         ELSE [statusKey EXCEPT ![id] =
                 [event |-> ev, ttl |-> IF r = "expire" THEN NoTTL ELSE STATUS_TTL]]

ProgressCalls == {"publish", "set", "expire"}

\* ProgressTracker.track_timing: hset of one field of the timing map.
track_timing(id, event, r) ==
    timing' = IF r = "ok" THEN [timing EXCEPT ![id] = @ \cup {event}] ELSE timing

Init ==
    /\ impl \in {"main", "legacy"}
    /\ queue \in Queues
    /\ env \in [Ids -> Envs]
    /\ \A i \in Ids :
         (i > Len(queue) \/ queue[i].kind # "job") => env[i] = Healthy
    \* worker.py has no summarizer and diarizes every job, whatever the
    \* message says
    /\ impl = "legacy" =>
         \A i \in 1..Len(queue) :
            /\ env[i].summarizer = "ok"
            /\ queue[i].kind = "job" => queue[i].isSpeakerDiarized
    /\ pc = "brpop"
    /\ job = NoJob
    /\ exc = "none"
    /\ transcription_id = NoId
    /\ events = [i \in Ids |-> <<>>]
    /\ statusKey = [i \in Ids |-> NoKey]
    /\ timing = [i \in Ids |-> {}]
    /\ active = {}
    /\ resultKey = [i \in Ids |-> NoResult]
    /\ summaryKey = [i \in Ids |-> NoSummary]
    /\ dbStatus = [i \in Ids |-> "pending"]
    /\ dbSegments = [i \in Ids |-> <<>>]
    /\ result = <<>>
    /\ summary = None
    /\ speaker_count = Undefined
    /\ transcribed = [i \in Ids |-> <<>>]
    /\ files = {}
    /\ sent = [i \in Ids |-> IF i <= Len(queue) THEN queue[i] ELSE NoJob]
    /\ raised = [i \in Ids |-> {}]
    /\ failedAt = [i \in Ids |-> "none"]
    /\ exit = [i \in Ids |-> "none"]
    /\ storeFaults = 0

\* ======================================================================
\* Transcripts and the segment merger
\* ======================================================================
\* a word the engine gave no timestamps: the word dict has no "start"/"end"
Untimed == 0 - 2
\* None where a time is expected ("start": None of an empty chunk)
NoTime == 0 - 1

Word(w, s, e, spk) == [word |-> w, start |-> s, end |-> e, speaker |-> spk]
Segment(t, s, e, spk, ws) ==
    [text |-> t, start |-> s, end |-> e, speaker |-> spk, words |-> ws]

\* The chunk the merger accumulates: {"text": "", "start": None, ...}
EmptyChunk == [text |-> "", start |-> NoTime, end |-> NoTime, speaker |-> None]

\* A merger step that keeps only the last word of a chunk as its text.
AddWord_overwrite(st, word) ==
    LET speaker == word.speaker
        change == st.current_speaker # None /\ speaker # st.current_speaker
        flushed == IF change /\ st.current_chunk.text # ""
                   THEN Append(st.new_segments, st.current_chunk)
                   ELSE st.new_segments
        chunk == IF change THEN EmptyChunk ELSE st.current_chunk
    IN  IF st.error \/ word.start = Untimed THEN [st EXCEPT !.error = TRUE]
        ELSE [new_segments |-> flushed,
              current_speaker |-> speaker,
              current_chunk |->
                 [text |-> word.word,
                  start |-> IF chunk.start = NoTime THEN word.start ELSE chunk.start,
                  end |-> word.end,
                  speaker |-> speaker],
              error |-> FALSE]

\* A merger step that takes the start of a chunk from its latest word.
AddWord_latest_start(st, word) ==
    LET speaker == word.speaker
        change == st.current_speaker # None /\ speaker # st.current_speaker
        flushed == IF change /\ st.current_chunk.text # ""
                   THEN Append(st.new_segments, st.current_chunk)
                   ELSE st.new_segments
        chunk == IF change THEN EmptyChunk ELSE st.current_chunk
    IN  IF st.error \/ word.start = Untimed THEN [st EXCEPT !.error = TRUE]
        ELSE [new_segments |-> flushed,
              current_speaker |-> speaker,
              current_chunk |->
                 [text |-> IF chunk.text # "" THEN chunk.text \o " " \o word.word
                           ELSE word.word,
                  start |-> word.start,
                  end |-> word.end,
                  speaker |-> speaker],
              error |-> FALSE]

\* _create_speaker_segments, lines 82-97: one word is added to the state
\* st = [new_segments, current_speaker, current_chunk, error].
AddWord(st, word) ==
    LET speaker == word.speaker
        change == st.current_speaker # None /\ speaker # st.current_speaker
        flushed == IF change /\ st.current_chunk.text # ""
                   THEN Append(st.new_segments, st.current_chunk)
                   ELSE st.new_segments
        chunk == IF change THEN EmptyChunk ELSE st.current_chunk
    IN  IF st.error THEN st
        ELSE IF word.start = Untimed
        THEN \* word["start"] raises KeyError; the chunk was already flushed
             [st EXCEPT !.error = TRUE, !.new_segments = flushed,
                        !.current_chunk = chunk]
        ELSE [new_segments |-> flushed,
              current_speaker |-> speaker,
              current_chunk |->
                 [text |-> IF chunk.text # "" THEN chunk.text \o " " \o word.word
                           ELSE word.word,
                  start |-> IF chunk.start = NoTime THEN word.start ELSE chunk.start,
                  end |-> word.end,
                  speaker |-> speaker],
              error |-> FALSE]

RECURSIVE AddWords(_, _)
AddWords(st, words) ==
    IF words = <<>> THEN st
    ELSE AddWords(AddWord(st, Head(words)), Tail(words))

\* The end of a source segment that appends the chunk whatever its text.
AddSegment_unchecked(st, segment) ==
    LET after == AddWords([st EXCEPT !.current_chunk = EmptyChunk], segment.words)
    IN  IF after.error THEN after
        ELSE [after EXCEPT !.new_segments = Append(@, after.current_chunk)]

\* _create_speaker_segments, lines 78-101: one source segment.  The chunk
\* starts empty for every source segment, current_speaker carries over.
AddSegment(st, segment) ==
    LET after == AddWords([st EXCEPT !.current_chunk = EmptyChunk], segment.words)
    IN  IF after.error \/ after.current_chunk.text = "" THEN after
        ELSE [after EXCEPT !.new_segments = Append(@, after.current_chunk)]

RECURSIVE AddSegments(_, _)
AddSegments(st, segments) ==
    IF segments = <<>> \/ st.error THEN st
    ELSE AddSegments(AddSegment(st, Head(segments)), Tail(segments))

\* TranscriptionService._create_speaker_segments (and the same loop of
\* worker.py, lines 197-226): the merged segments, or error when a word
\* access raised.
_create_speaker_segments(original_segments) ==
    LET st == AddSegments([new_segments |-> <<>>, current_speaker |-> None,
                           current_chunk |-> EmptyChunk, error |-> FALSE],
                          original_segments)
    IN  [error |-> st.error, segments |-> st.new_segments]

\* TranscriptionService.get_speaker_count (worker.py line 228):
\* len(set(seg.get("speaker") for seg in segments if seg.get("speaker")))
get_speaker_count(segments) ==
    Cardinality({ segments[i].speaker : i \in 1..Len(segments) }
                \ {None, Absent, ""})

\* What the speech engine may return: segments without speaker, their words
\* (when the engine gives words) without speaker.
Transcripts ==
    { <<Segment("hi", 0, 1, Absent, <<Word("hi", 0, 1, None)>>)>>,
      <<Segment("hi yo", 0, 2, Absent,
                <<Word("hi", 0, 1, None), Word("yo", 1, 2, None)>>)>>,
      <<Segment("hi", 0, 1, Absent, <<>>)>>,
      <<Segment("7", 0, 1, Absent, <<Word("7", Untimed, Untimed, None)>>)>> }

SpeakerLabels == {None, "A", "B"}

\* whisperx.assign_word_speakers: the transcript with a speaker (or none) on
\* every word.
Relabel(segment, f) ==
    [segment EXCEPT !.words =
        [k \in 1..Len(segment.words) |-> [segment.words[k] EXCEPT !.speaker = f[k]]]]

Labellings(transcript) ==
    { lab \in [1..Len(transcript) ->
                 UNION { [1..Len(transcript[i].words) -> SpeakerLabels] :
                           i \in 1..Len(transcript) }] :
        \A i \in 1..Len(transcript) :
            DOMAIN lab[i] = 1..Len(transcript[i].words) }

Labelled(transcript) ==
    { [i \in 1..Len(transcript) |-> Relabel(transcript[i], lab[i])] :
        lab \in Labellings(transcript) }

\* ======================================================================
\* src/src/main.py: the consumer loop
\* ======================================================================
store == <<events, statusKey, timing, active, resultKey, summaryKey>>
\* what only worker.py reads or writes
legacy == <<dbStatus, dbSegments, result, speaker_count, transcribed>>

\* main, line 20: redis_client.brpop(Config.QUEUE_NAME, timeout=0)
brpop ==
    /\ impl = "main" /\ pc = "brpop"
    /\ \E r \in StoreOutcomes({"brpop"}) :
         /\ CountFault(r)
         /\ IF r = "ok"
            THEN /\ queue # <<>>
                 /\ job' = queue[Len(queue)]
                 /\ queue' = SubSeq(queue, 1, Len(queue) - 1)
                 /\ pc' = "decode"
                 /\ exc' = "none"
            ELSE /\ job' = NoJob
                 /\ pc' = "loop_except"
                 /\ exc' = "brpop"
                 /\ UNCHANGED queue
    /\ transcription_id' = NoId
    /\ UNCHANGED <<summary, sent, failedAt, legacy, impl, env, store, files, raised, exit>>

\* main, lines 25-26: json.loads(raw.decode())
decode ==
    /\ impl = "main" /\ pc = "decode"
    /\ IF job.kind = "undecodable"
       THEN pc' = "loop_except" /\ Throw("JSONDecodeError")
       ELSE pc' = "job_data" /\ Throw("ok")
    /\ UNCHANGED <<summary, sent, legacy, impl, queue, env, job, transcription_id, store, files,
                   raised, exit, storeFaults>>

\* process_transcription_job, lines 17-22: the fields of job_data are read
\* before the try block; a message without "filename" raises KeyError.
job_data ==
    /\ impl = "main" /\ pc = "job_data"
    /\ transcription_id' = job.id
    /\ IF job.kind = "no_filename"
       THEN pc' = "loop_except" /\ Throw("KeyError")
       ELSE pc' = "track_job_start" /\ Throw("ok")
    /\ UNCHANGED <<summary, sent, legacy, impl, queue, env, job, store, files, raised, exit,
                   storeFaults>>


\* ProgressTracker.track_job_start: hset start_time, then sadd.
track_job_start ==
    /\ impl = "main" /\ pc = "track_job_start"
    /\ \E r \in StoreOutcomes({"hset", "sadd"}) :
         /\ CountFault(r) /\ Raise(transcription_id, r, "store")
         /\ timing' = IF r = "hset" THEN timing
                      ELSE [timing EXCEPT ![transcription_id] = @ \cup {"start_time"}]
         /\ active' = IF r = "ok" THEN active \cup {transcription_id} ELSE active
         /\ pc' = IF r = "ok" THEN "started" ELSE "handle_error"
         /\ Throw(r)
    /\ UNCHANGED <<summary, sent, legacy, impl, queue, env, job, transcription_id, events, statusKey,
                   resultKey, summaryKey, files, exit>>

\* A stage of the try block that is one update_progress call.
Report(at, status, progress, next) ==
    /\ impl = "main" /\ pc = at
    /\ \E r \in StoreOutcomes(ProgressCalls) :
         /\ CountFault(r) /\ Raise(transcription_id, r, "store")
         /\ update_progress(transcription_id, status, progress, r)
         /\ pc' = IF r = "ok" THEN next ELSE "handle_error"
         /\ Throw(r)
    /\ UNCHANGED <<summary, sent, legacy, impl, queue, env, job, transcription_id, timing, active,
                   resultKey, summaryKey, files, exit>>

\* process_transcription_job, line 29
started == Report("started", "started", 0, "downloading")

\* _download_audio, line 68
downloading == Report("downloading", "downloading", 5, "download_audio_file")

\* StorageManager.download_audio_file: the temporary file is created
\* (delete=False) and closed, then fget_object fills it or raises.
download_audio_file ==
    /\ impl = "main" /\ pc = "download_audio_file"
    /\ files' = files \cup {transcription_id}
    /\ \E r \in {"ok", "fget_object"} :
         /\ Raise(transcription_id, r, "download")
         /\ pc' = IF r = "ok" THEN "download_complete" ELSE "handle_error"
         /\ Throw(r)
    /\ UNCHANGED <<summary, sent, legacy, impl, queue, env, job, transcription_id, store, exit,
                   storeFaults>>

\* _download_audio, line 75: track_timing(download_complete)
download_complete ==
    /\ impl = "main" /\ pc = "download_complete"
    /\ \E r \in StoreOutcomes({"hset"}) :
         /\ CountFault(r) /\ Raise(transcription_id, r, "store")
         /\ track_timing(transcription_id, "download_complete", r)
         /\ pc' = IF r = "ok" THEN "processing" ELSE "handle_error"
         /\ Throw(r)
    /\ UNCHANGED <<summary, sent, legacy, impl, queue, env, job, transcription_id, events, statusKey,
                   active, resultKey, summaryKey, files, exit>>

\* _download_audio, lines 76-77
processing == Report("processing", "processing", 10, "analyzing")

\* process_transcription_job, lines 35-39: get_audio_duration returns 0 when
\* the probe fails, then the analyzing event.
analyzing == Report("analyzing", "analyzing", 15, "loading_model")

\* _transcribe_audio, line 84
loading_model == Report("loading_model", "loading_model", 20, "transcribing")

\* _transcribe_audio, line 85
transcribing == Report("transcribing", "transcribing", 25, "transcribe_with_groq")

\* The attributes of a TranscriptionService object.
TranscriptionServiceMethods ==
    {"transcribe", "_transcribe_with_groq", "_transcribe_with_local",
     "perform_diarization", "_create_speaker_segments", "get_speaker_count",
     "summarize_transcription"}

\* _transcribe_audio, line 88: self.transcription.transcribe_with_groq(...).
\* The attribute lookup raises AttributeError when the service has no such
\* method; the call is then never made.
transcribe_with_groq ==
    /\ impl = "main" /\ pc = "transcribe_with_groq"
    /\ IF "transcribe_with_groq" \in TranscriptionServiceMethods
       THEN pc' = "transcription_complete" /\ Throw("ok")
       ELSE pc' = "handle_error" /\ Throw("AttributeError")
    /\ UNCHANGED <<summary, sent, legacy, impl, queue, env, job, transcription_id, store, files,
                   raised, exit, storeFaults>>

ErrorResult(ttl) == [shape |-> "error", ttl |-> ttl]

\* An error handler that skips the error event and goes on to
\* ProgressTracker.handle_error.
handle_error_silent ==
    /\ impl = "main" /\ pc = "handle_error"
    /\ pc' = "progress_handle_error" /\ exc' = "none"
    /\ UNCHANGED <<summary, sent, failedAt, legacy, impl, queue, env, job, transcription_id, store, files,
                   raised, exit, storeFaults>>

\* _handle_error, line 192: the error event.  Nothing in _handle_error is
\* caught: an exception leaves process_transcription_job.
handle_error ==
    /\ impl = "main" /\ pc = "handle_error"
    /\ \E r \in StoreOutcomes(ProgressCalls) :
         /\ CountFault(r) /\ Raise(transcription_id, r, "store_in_handler")
         /\ update_progress(transcription_id, "error", NoProgress, r)
         /\ IF r = "ok"
            THEN pc' = "progress_handle_error" /\ exc' = "none"
            ELSE pc' = "loop_except" /\ exc' = pc
    /\ UNCHANGED <<summary, sent, failedAt, legacy, impl, queue, env, job, transcription_id, timing, active,
                   resultKey, summaryKey, files, exit>>

\* ProgressTracker.handle_error: srem, then track_timing(error_time).
progress_handle_error ==
    /\ impl = "main" /\ pc = "progress_handle_error"
    /\ \E r \in StoreOutcomes({"srem", "hset"}) :
         /\ CountFault(r) /\ Raise(transcription_id, r, "store_in_handler")
         /\ active' = IF r = "srem" THEN active ELSE active \ {transcription_id}
         /\ timing' = IF r = "ok"
                      THEN [timing EXCEPT ![transcription_id] = @ \cup {"error_time"}]
                      ELSE timing
         /\ IF r = "ok"
            THEN pc' = "error_data" /\ exc' = "none"
            ELSE pc' = "loop_except" /\ exc' = pc
    /\ UNCHANGED <<summary, sent, failedAt, legacy, impl, queue, env, job, transcription_id, events, statusKey,
                   resultKey, summaryKey, files, exit>>

\* _handle_error, lines 196-202: the error result is set, then given its
\* expiry; then process_transcription_job returns to the loop.
error_data ==
    /\ impl = "main" /\ pc = "error_data"
    /\ \E r \in StoreOutcomes({"set", "expire"}) :
         /\ CountFault(r) /\ Raise(transcription_id, r, "store_in_handler")
         /\ resultKey' =
              IF r = "set" THEN resultKey
              ELSE [resultKey EXCEPT ![transcription_id] =
                      ErrorResult(IF r = "expire" THEN NoTTL ELSE RESULT_TTL)]
         /\ IF r = "ok"
            THEN /\ pc' = "brpop" /\ exc' = "none"
                 /\ exit' = [exit EXCEPT ![transcription_id] = "returned"]
            ELSE /\ pc' = "loop_except" /\ exc' = pc
                 /\ UNCHANGED exit
    /\ UNCHANGED <<summary, sent, failedAt, legacy, impl, queue, env, job, transcription_id, events, statusKey,
                   timing, active, summaryKey, files>>

\* main, lines 33-37: except Exception: print, sleep(2), continue.
loop_except ==
    /\ impl = "main" /\ pc = "loop_except"
    /\ pc' = "brpop"
    /\ exc' = "none"
    /\ exit' = IF job = NoJob THEN exit ELSE [exit EXCEPT ![job.id] = exc]
    /\ UNCHANGED <<summary, sent, failedAt, legacy, impl, queue, env, job, transcription_id, store, files,
                   raised, storeFaults>>

\* ======================================================================
\* src/worker.py: the single-file worker loop.  Its variables are module
\* globals: transcription_id and speaker_count keep the value an earlier
\* iteration gave them.
\* ======================================================================
mainOnly == <<resultKey>>

\* worker.py, line 76: r.brpop(queue_name, timeout=0)
worker_brpop ==
    /\ impl = "legacy" /\ pc = "brpop"
    /\ \E r \in StoreOutcomes({"brpop"}) :
         /\ CountFault(r)
         /\ IF r = "ok"
            THEN /\ queue # <<>>
                 /\ job' = queue[Len(queue)]
                 /\ queue' = SubSeq(queue, 1, Len(queue) - 1)
                 /\ pc' = "decode"
                 /\ exc' = "none"
            ELSE /\ job' = NoJob
                 /\ pc' = "except"
                 /\ exc' = "brpop"
                 /\ UNCHANGED queue
    \* result is dead here: every read of it follows model.transcribe
    /\ result' = <<>>
    /\ UNCHANGED <<summary, sent, failedAt, impl, env, transcription_id, store, mainOnly, dbStatus,
                   dbSegments, speaker_count, transcribed, files, raised, exit>>

\* worker.py, line 81: json.loads(raw.decode())
worker_decode ==
    /\ impl = "legacy" /\ pc = "decode"
    /\ IF job.kind = "undecodable"
       THEN pc' = "except" /\ Throw("JSONDecodeError")
       ELSE pc' = "job_json" /\ Throw("ok")
    /\ UNCHANGED <<summary, sent, impl, queue, env, job, transcription_id, store, mainOnly,
                   legacy, files, raised, exit, storeFaults>>

\* worker.py, lines 83-85: transcription_id is bound first, then
\* job_json["filename"] raises KeyError for a message without it.
worker_job_json ==
    /\ impl = "legacy" /\ pc = "job_json"
    /\ transcription_id' = job.id
    /\ IF job.kind = "no_filename"
       THEN pc' = "except" /\ Throw("KeyError")
       ELSE pc' = "start_time" /\ Throw("ok")
    /\ UNCHANGED <<summary, sent, impl, queue, env, job, store, mainOnly, legacy, files,
                   raised, exit, storeFaults>>

\* An update_progress call of the loop body; a raise goes to onfail.
WorkerReport(at, status, progress, next, onfail) ==
    /\ impl = "legacy" /\ pc = at
    /\ \E r \in StoreOutcomes(ProgressCalls) :
         /\ CountFault(r) /\ Raise(job.id, r, "store")
         /\ update_progress(transcription_id, status, progress, r)
         /\ pc' = IF r = "ok" THEN next ELSE onfail
         /\ IF onfail = "except" THEN Throw(r) ELSE ThrowInHandler(r)
    /\ UNCHANGED <<summary, sent, impl, queue, env, job, transcription_id, timing, active,
                   summaryKey, mainOnly, legacy, files, exit>>

\* An r.hset of the timing map in the loop body.
WorkerTiming(at, fields, next, onfail) ==
    /\ impl = "legacy" /\ pc = at
    /\ \E r \in StoreOutcomes({"hset"}) :
         /\ CountFault(r) /\ Raise(job.id, r, "store")
         /\ timing' = IF r = "ok"
                      THEN [timing EXCEPT ![transcription_id] = @ \cup fields]
                      ELSE timing
         /\ pc' = IF r = "ok" THEN next ELSE onfail
         /\ IF onfail = "except" THEN Throw(r) ELSE ThrowInHandler(r)
    /\ UNCHANGED <<summary, sent, impl, queue, env, job, transcription_id, events, statusKey,
                   active, summaryKey, mainOnly, legacy, files, exit>>

\* A collaborator call of the loop body that changes nothing of the state.
WorkerCall(at, what, next, onfail) ==
    /\ impl = "legacy" /\ pc = at
    /\ \E r \in {"ok", what} :
         /\ Raise(job.id, r, what)
         /\ pc' = IF r = "ok" THEN next ELSE onfail
         /\ IF onfail = "except" THEN Throw(r) ELSE ThrowInHandler(r)
    /\ UNCHANGED <<summary, sent, impl, queue, env, job, transcription_id, store, mainOnly,
                   legacy, files, exit, storeFaults>>

\* line 91
worker_start_time == WorkerTiming("start_time", {"start_time"}, "started", "except")
\* line 94
worker_started == WorkerReport("started", "started", 0, "sadd", "except")

\* line 97: r.sadd("transcription:active_jobs", transcription_id)
worker_sadd ==
    /\ impl = "legacy" /\ pc = "sadd"
    /\ \E r \in StoreOutcomes({"sadd"}) :
         /\ CountFault(r) /\ Raise(job.id, r, "store")
         /\ active' = IF r = "ok" THEN active \cup {transcription_id} ELSE active
         /\ pc' = IF r = "ok" THEN "downloading" ELSE "except"
         /\ Throw(r)
    /\ UNCHANGED <<summary, sent, impl, queue, env, job, transcription_id, events, statusKey,
                   timing, summaryKey, mainOnly, legacy, files, exit>>

\* line 100
worker_downloading ==
    WorkerReport("downloading", "downloading", 5, "fget_object", "except")

\* lines 103-106: the temporary file is created (delete=False), then
\* fget_object fills it or raises.
worker_fget_object ==
    /\ impl = "legacy" /\ pc = "fget_object"
    /\ files' = files \cup {transcription_id}
    /\ \E r \in {"ok", "fget_object"} :
         /\ Raise(job.id, r, "download")
         /\ pc' = IF r = "ok" THEN "download_complete" ELSE "except"
         /\ Throw(r)
    /\ UNCHANGED <<summary, sent, impl, queue, env, job, transcription_id, store, mainOnly,
                   legacy, exit, storeFaults>>

\* line 110
worker_download_complete ==
    WorkerTiming("download_complete", {"download_complete"}, "processing", "except")
\* line 113
worker_processing == WorkerReport("processing", "processing", 10, "analyzing", "except")
\* lines 117-120
worker_analyzing == WorkerReport("analyzing", "analyzing", 15, "loading_model", "except")
\* line 124
worker_loading_model ==
    WorkerReport("loading_model", "loading_model", 20, "load_model", "except")
\* lines 126-131: whisperx.load_model, whisperx.load_audio
worker_load_model == WorkerCall("load_model", "transcription", "model_loaded", "except")
\* line 134
worker_model_loaded ==
    WorkerTiming("model_loaded", {"model_loaded"}, "transcribing", "except")
\* line 135
worker_transcribing ==
    WorkerReport("transcribing", "transcribing", 25, "transcribe", "except")

\* lines 171-175: result = model.transcribe(...)
worker_transcribe ==
    /\ impl = "legacy" /\ pc = "transcribe"
    /\ \/ /\ result' \in Transcripts
          /\ transcribed' = [transcribed EXCEPT ![job.id] = result']
          /\ pc' = "transcription_complete" /\ Throw("ok")
          /\ UNCHANGED raised
       \/ /\ Raise(job.id, "transcribe", "transcription")
          /\ pc' = "except" /\ Throw("transcribe")
          /\ UNCHANGED <<result, transcribed>>
    /\ UNCHANGED <<summary, sent, impl, queue, env, job, transcription_id, store, mainOnly,
                   dbStatus, dbSegments, speaker_count, files, exit, storeFaults>>

\* line 178
worker_transcription_complete ==
    WorkerTiming("transcription_complete", {"transcription_complete"},
                 "post_processing", "except")
\* line 181
worker_post_processing ==
    WorkerReport("post_processing", "post_processing", 65, "diarizing", "except")
\* line 185: before the inner try
worker_diarizing ==
    WorkerReport("diarizing", "diarizing", 70, "assign_word_speakers", "except")

\* lines 189-193, inside the inner try: the diarization pipeline and
\* result = whisperx.assign_word_speakers(diarize_segments, result)
worker_assign_word_speakers ==
    /\ impl = "legacy" /\ pc = "assign_word_speakers"
    /\ IF env[job.id].diarizer = "ok"
       THEN /\ result' \in Labelled(result)
            /\ pc' = "processing80" /\ ThrowInHandler("ok")
       ELSE /\ pc' = "diarize_failed" /\ ThrowInHandler("diarize")
            /\ UNCHANGED result
    /\ UNCHANGED <<summary, sent, impl, queue, env, job, transcription_id, store, mainOnly,
                   dbStatus, dbSegments, speaker_count, transcribed, files, raised, exit,
                   storeFaults>>

\* line 196, inside the inner try
worker_processing80 ==
    WorkerReport("processing80", "processing", 80, "new_segments", "diarize_failed")

\* lines 197-228, inside the inner try: the merge loop, result["segments"]
\* and speaker_count are assigned only when the loop ends.
worker_new_segments ==
    /\ impl = "legacy" /\ pc = "new_segments"
    /\ LET merged == _create_speaker_segments(result) IN
       IF merged.error
       THEN /\ pc' = "diarize_failed" /\ ThrowInHandler("KeyError")
            /\ UNCHANGED <<result, speaker_count>>
       ELSE /\ result' = merged.segments
            /\ speaker_count' = get_speaker_count(merged.segments)
            /\ pc' = "finalizing" /\ ThrowInHandler("ok")
    /\ UNCHANGED <<summary, sent, impl, queue, env, job, transcription_id, store, mainOnly,
                   dbStatus, dbSegments, transcribed, files, raised, exit, storeFaults>>

\* line 230, inside the inner try
worker_finalizing ==
    WorkerReport("finalizing", "finalizing", 85, "diarization_complete",
                 "diarize_failed")
\* line 232, inside the inner try
worker_diarization_complete ==
    WorkerTiming("diarization_complete", {"diarization_complete"}, "saving",
                 "diarize_failed")
\* lines 234-236: except Exception of the inner try
worker_diarize_failed ==
    WorkerReport("diarize_failed", "diarize_failed", 75, "saving", "except")
\* lines 238-240
worker_saving == WorkerReport("saving", "saving", 90, "update_completed", "except")

\* lines 244-250: UPDATE transcriptions SET status = 'completed' ...
worker_update_completed ==
    /\ impl = "legacy" /\ pc = "update_completed"
    /\ \E r \in {"ok", "execute"} :
         /\ Raise(job.id, r, "db")
         /\ dbStatus' = IF r = "ok"
                        THEN [dbStatus EXCEPT ![transcription_id] = "completed"]
                        ELSE dbStatus
         /\ pc' = IF r = "ok" THEN "insert_segments" ELSE "except"
         /\ Throw(r)
    /\ UNCHANGED <<summary, sent, impl, queue, env, job, transcription_id, store, mainOnly,
                   dbSegments, result, speaker_count, transcribed, files, exit, storeFaults>>

\* The row an INSERT INTO segments writes: seg.get("speaker", "Speaker 1")
\* is the default only for a segment without the key.
Row(seg) ==
    [speaker |-> IF seg.speaker = Absent THEN "Speaker 1" ELSE seg.speaker,
     text |-> seg.text, start |-> seg.start, end |-> seg.end]

\* lines 253-268: one INSERT per segment (autocommit); the k-th may raise.
\* (The periodic saving events need more than 50 segments.)
worker_insert_segments ==
    /\ impl = "legacy" /\ pc = "insert_segments"
    /\ \E k \in 0..Len(result) :
         /\ dbSegments' = [dbSegments EXCEPT ![transcription_id] =
                             @ \o [i \in 1..k |-> Row(result[i])]]
         /\ Raise(job.id, IF k = Len(result) THEN "ok" ELSE "execute", "db")
         /\ pc' = IF k = Len(result) THEN "completion_time" ELSE "except"
         /\ Throw(IF k = Len(result) THEN "ok" ELSE "execute")
    /\ UNCHANGED <<summary, sent, impl, queue, env, job, transcription_id, store, mainOnly,
                   dbStatus, result, speaker_count, transcribed, files, exit, storeFaults>>

\* lines 272-273: hset completion_time, hset total_duration
worker_completion_time ==
    /\ impl = "legacy" /\ pc = "completion_time"
    /\ \E r \in StoreOutcomes({"hset", "hset2"}) :
         /\ CountFault(r) /\ Raise(job.id, r, "store")
         /\ timing' = [timing EXCEPT ![transcription_id] =
                         @ \cup (CASE r = "hset" -> {}
                                   [] r = "hset2" -> {"completion_time"}
                                   [] OTHER -> {"completion_time", "total_duration"})]
         /\ pc' = IF r = "ok" THEN "summary" ELSE "except"
         /\ Throw(r)
    /\ UNCHANGED <<summary, sent, impl, queue, env, job, transcription_id, events, statusKey,
                   active, summaryKey, mainOnly, legacy, files, exit>>

\* lines 276-284: the job summary; "speakers" is speaker_count when the name
\* is bound, else 1.
worker_summary ==
    /\ impl = "legacy" /\ pc = "summary"
    /\ \E r \in StoreOutcomes({"set", "expire"}) :
         /\ CountFault(r) /\ Raise(job.id, r, "store")
         /\ summaryKey' =
              IF r = "set" THEN summaryKey
              ELSE [summaryKey EXCEPT ![transcription_id] =
                      [segments |-> Len(result),
                       speakers |-> IF speaker_count # Undefined
                                    THEN speaker_count ELSE 1,
                       ttl |-> IF r = "expire" THEN NoTTL ELSE RESULT_TTL]]
         /\ pc' = IF r = "ok" THEN "completed" ELSE "except"
         /\ Throw(r)
    /\ UNCHANGED <<summary, sent, impl, queue, env, job, transcription_id, events, statusKey,
                   timing, active, mainOnly, legacy, files, exit>>

\* line 287
worker_completed == WorkerReport("completed", "completed", 100, "srem", "except")

\* line 291: r.srem("transcription:active_jobs", transcription_id)
worker_srem ==
    /\ impl = "legacy" /\ pc = "srem"
    /\ \E r \in StoreOutcomes({"srem"}) :
         /\ CountFault(r) /\ Raise(job.id, r, "store")
         /\ active' = IF r = "ok" THEN active \ {transcription_id} ELSE active
         /\ pc' = IF r = "ok" THEN "remove" ELSE "except"
         /\ Throw(r)
    /\ UNCHANGED <<summary, sent, impl, queue, env, job, transcription_id, events, statusKey,
                   timing, summaryKey, mainOnly, legacy, files, exit>>

\* lines 296-299: os.remove(local_audio_path); a failure is printed.  The
\* iteration ends.
worker_remove ==
    /\ impl = "legacy" /\ pc = "remove"
    /\ \/ files' = files \ {transcription_id}
       \/ UNCHANGED files
    /\ pc' = "brpop" /\ exc' = "none"
    /\ exit' = [exit EXCEPT ![job.id] = "returned"]
    /\ UNCHANGED <<summary, sent, failedAt, impl, queue, env, job, transcription_id, store, mainOnly,
                   legacy, raised, storeFaults>>

\* What ends an iteration through the except block.
Handled == IF job = NoJob THEN exit ELSE [exit EXCEPT ![job.id] = "except"]
Crashed == IF job = NoJob THEN exit ELSE [exit EXCEPT ![job.id] = "crashed"]

\* lines 301-309: except Exception of the loop.  When the name
\* transcription_id is bound the error event is published; nothing here is
\* inside a try, so a raise ends the process.
worker_except ==
    /\ impl = "legacy" /\ pc = "except"
    /\ IF transcription_id = NoId
       THEN \* lines 322-324: sleep(2), continue
            /\ pc' = "brpop" /\ exc' = "none" /\ exit' = Handled
            /\ UNCHANGED <<events, statusKey, raised, storeFaults>>
       ELSE \E r \in StoreOutcomes(ProgressCalls) :
            /\ CountFault(r)
            /\ raised' = IF r = "ok" \/ job = NoJob THEN raised
                         ELSE [raised EXCEPT ![job.id] = @ \cup {"store_in_handler"}]
            /\ update_progress(transcription_id, "error", NoProgress, r)
            /\ IF r = "ok"
               THEN pc' = "except_srem" /\ exc' = "none" /\ UNCHANGED exit
               ELSE pc' = "crashed" /\ exc' = pc /\ exit' = Crashed
    /\ UNCHANGED <<summary, sent, failedAt, impl, queue, env, job, transcription_id, timing, active,
                   summaryKey, mainOnly, legacy, files>>

\* lines 310-311: srem, hset error_time, still outside any try
worker_except_srem ==
    /\ impl = "legacy" /\ pc = "except_srem"
    /\ \E r \in StoreOutcomes({"srem", "hset"}) :
         /\ CountFault(r)
         /\ raised' = IF r = "ok" \/ job = NoJob THEN raised
                      ELSE [raised EXCEPT ![job.id] = @ \cup {"store_in_handler"}]
         /\ active' = IF r = "srem" THEN active ELSE active \ {transcription_id}
         /\ timing' = IF r = "ok"
                      THEN [timing EXCEPT ![transcription_id] = @ \cup {"error_time"}]
                      ELSE timing
         /\ IF r = "ok"
            THEN pc' = "except_execute" /\ exc' = "none" /\ UNCHANGED exit
            ELSE pc' = "crashed" /\ exc' = pc /\ exit' = Crashed
    /\ UNCHANGED <<summary, sent, failedAt, impl, queue, env, job, transcription_id, events, statusKey,
                   summaryKey, mainOnly, legacy, files>>

\* lines 314-324: the UPDATE to status 'error' inside try/except: pass, then
\* sleep(2), continue.
worker_except_execute ==
    /\ impl = "legacy" /\ pc = "except_execute"
    /\ \E r \in {"ok", "execute"} :
         /\ raised' = IF r = "ok" \/ job = NoJob THEN raised
                      ELSE [raised EXCEPT ![job.id] = @ \cup {"db_error_status"}]
         /\ dbStatus' = IF r = "ok"
                        THEN [dbStatus EXCEPT ![transcription_id] = "error"]
                        ELSE dbStatus
    /\ pc' = "brpop" /\ exc' = "none" /\ exit' = Handled
    /\ UNCHANGED <<summary, sent, failedAt, impl, queue, env, job, transcription_id, store, mainOnly,
                   dbSegments, result, speaker_count, transcribed, files, storeFaults>>

WorkerNext ==
    \/ worker_brpop \/ worker_decode \/ worker_job_json \/ worker_start_time
    \/ worker_started \/ worker_sadd \/ worker_downloading \/ worker_fget_object
    \/ worker_download_complete \/ worker_processing \/ worker_analyzing
    \/ worker_loading_model \/ worker_load_model \/ worker_model_loaded
    \/ worker_transcribing \/ worker_transcribe \/ worker_transcription_complete
    \/ worker_post_processing \/ worker_diarizing \/ worker_assign_word_speakers
    \/ worker_processing80 \/ worker_new_segments \/ worker_finalizing
    \/ worker_diarization_complete \/ worker_diarize_failed \/ worker_saving
    \/ worker_update_completed \/ worker_insert_segments \/ worker_completion_time
    \/ worker_summary \/ worker_completed \/ worker_srem \/ worker_remove
    \/ worker_except \/ worker_except_srem \/ worker_except_execute

MainNext ==
    \/ brpop \/ decode \/ job_data \/ track_job_start \/ started
    \/ downloading \/ download_audio_file \/ download_complete \/ processing
    \/ analyzing \/ loading_model \/ transcribing \/ transcribe_with_groq
    \/ handle_error \/ progress_handle_error \/ error_data \/ loop_except

Next == MainNext \/ WorkerNext

Spec == Init /\ [][Next]_vars

\* ======================================================================
\* src/src/job_processor.py, lines 43-61: process_transcription_job after
\* _transcribe_audio, run on the result a transcription returns.  These
\* statements are not reached from the consumer loop (transcribe_with_groq
\* raises); TailSpec runs them from the state a returned result leaves.
\* ======================================================================
\* _generate_summary, line 142: if total_text_length < 500
SUMMARY_MIN_LENGTH == 500

\* a text of n characters
RECURSIVE Text(_)
Text(n) ==
    IF n = 0 THEN ""
    ELSE LET h == Text(n \div 2)
         IN  IF n % 2 = 0 THEN h \o h ELSE h \o h \o "a"

\* _generate_summary, line 141: sum(len(seg["text"]) for seg in segments)
RECURSIVE total_text_length(_)
total_text_length(segments) ==
    IF segments = <<>> THEN 0
    ELSE Len(Head(segments).text) + total_text_length(Tail(segments))

\* Results of the transcription provider: segments with text, start and end
\* and no words; their total length is around the summary threshold.
LongTranscripts ==
    { <<Segment(Text(SUMMARY_MIN_LENGTH - 1), 0, 9, Absent, <<>>)>>,
      <<Segment(Text(SUMMARY_MIN_LENGTH), 0, 9, Absent, <<>>)>>,
      <<Segment(Text(SUMMARY_MIN_LENGTH \div 2), 0, 4, Absent, <<>>),
        Segment(Text(SUMMARY_MIN_LENGTH - SUMMARY_MIN_LENGTH \div 2 - 1), 4, 9, Absent, <<>>)>>,
      <<Segment(Text(SUMMARY_MIN_LENGTH \div 2), 0, 4, Absent, <<>>),
        Segment(Text(SUMMARY_MIN_LENGTH - SUMMARY_MIN_LENGTH \div 2), 4, 9, Absent, <<>>)>> }

TailTranscripts == Transcripts \cup LongTranscripts

\* The events process_transcription_job has published when
\* _transcribe_audio returns (lines 29-94).
TranscribedEvents ==
    << Event("started", 0), Event("downloading", 5), Event("processing", 10),
       Event("analyzing", 15), Event("loading_model", 20),
       Event("transcribing", 25), Event("post_processing", 65) >>

\* The state at line 43: result holds what _transcribe_audio returned for
\* job 1; the store holds what lines 28-94 wrote.
TailInit ==
    /\ impl = "main"
    /\ queue = <<>>
    /\ env \in [Ids -> Envs]
    /\ \A i \in Ids : i # 1 => env[i] = Healthy
    /\ job \in { m \in Message(1) : m.kind = "job" }
    /\ pc = IF job.isSpeakerDiarized THEN "diarizing" ELSE "generate_summary"
    /\ exc = "none"
    /\ transcription_id = 1
    /\ result \in TailTranscripts
    /\ transcribed = [i \in Ids |-> IF i = 1 THEN result ELSE <<>>]
    /\ summary = None
    /\ events = [i \in Ids |-> IF i = 1 THEN TranscribedEvents ELSE <<>>]
    /\ statusKey =
         [i \in Ids |-> IF i = 1
                        THEN [event |-> Event("post_processing", 65), ttl |-> STATUS_TTL]
                        ELSE NoKey]
    /\ timing = [i \in Ids |-> IF i = 1
                               THEN {"start_time", "download_complete",
                                     "transcription_complete"}
                               ELSE {}]
    /\ active = {1}
    /\ resultKey = [i \in Ids |-> NoResult]
    /\ summaryKey = [i \in Ids |-> NoSummary]
    /\ dbStatus = [i \in Ids |-> "pending"]
    /\ dbSegments = [i \in Ids |-> <<>>]
    /\ speaker_count = Undefined
    /\ files = {1}
    /\ sent = [i \in Ids |-> IF i = 1 THEN job ELSE NoJob]
    /\ raised = [i \in Ids |-> {}]
    /\ failedAt = [i \in Ids |-> "none"]
    /\ exit = [i \in Ids |-> "none"]
    /\ storeFaults = 0

\* what the statements after the transcription leave alone
tailFrame == <<impl, queue, env, job, transcription_id, transcribed, sent, dbStatus,
               dbSegments, speaker_count>>

\* A statement that is one track_timing call.
Timing(at, event, next) ==
    /\ impl = "main" /\ pc = at
    /\ \E r \in StoreOutcomes({"hset"}) :
         /\ CountFault(r) /\ Raise(transcription_id, r, "store")
         /\ track_timing(transcription_id, event, r)
         /\ pc' = IF r = "ok" THEN next ELSE "handle_error"
         /\ Throw(r)
    /\ UNCHANGED <<tailFrame, events, statusKey, active, resultKey, summaryKey, result,
                   summary, files, exit>>

\* _perform_diarization, line 100
diarizing == Report("diarizing", "diarizing", 70, "perform_diarization")

\* the messages str(e) of a failing diarization collaborator
DiarizationErrors == {"", "model not available"}

\* TranscriptionService.perform_diarization and line 105 (if error:).  The
\* collaborator raises, or assign_word_speakers labels the words of the
\* result in place and _create_speaker_segments merges them; every
\* exception is caught and returned as (transcription_result, str(e)).
perform_diarization ==
    /\ impl = "main" /\ pc = "perform_diarization"
    /\ IF env[transcription_id].diarizer = "fail"
       THEN \E error \in DiarizationErrors :
              /\ pc' = IF error # "" THEN "diarize_failed" ELSE "finalizing"
              /\ UNCHANGED result
       ELSE \E labelled \in Labelled(result) :
              LET merged == _create_speaker_segments(labelled)
              IN  IF merged.error
                  THEN pc' = "diarize_failed" /\ result' = labelled
                  ELSE pc' = "finalizing" /\ result' = merged.segments
    /\ UNCHANGED <<tailFrame, store, summary, files, exc, raised, failedAt, exit,
                   storeFaults>>

\* _perform_diarization, line 106
diarize_failed == Report("diarize_failed", "diarize_failed", 75, "generate_summary")

\* _perform_diarization, lines 110-113
finalizing == Report("finalizing", "finalizing", 85, "diarization_complete")

\* _perform_diarization, line 114
diarization_complete == Timing("diarization_complete", "diarization_complete", "generate_summary")

\* _generate_summary with the threshold taken inclusively (<= 500).
generate_summary_inclusive ==
    /\ impl = "main" /\ pc = "generate_summary"
    /\ LET skip == total_text_length(result) <= SUMMARY_MIN_LENGTH
       IN  \E r \in StoreOutcomes(ProgressCalls) :
             /\ CountFault(r) /\ Raise(transcription_id, r, "store")
             /\ IF skip
                THEN update_progress(transcription_id, "summary_skipped", 92, r)
                ELSE update_progress(transcription_id, "summarizing", 90, r)
             /\ pc' = IF r # "ok" THEN "handle_error"
                      ELSE IF skip THEN "saving" ELSE "summarize_transcription"
             /\ Throw(r)
    /\ summary' = None
    /\ UNCHANGED <<tailFrame, timing, active, resultKey, summaryKey, result, files, exit>>

\* _generate_summary, lines 138-148: short transcripts skip the summary
\* (summary_skipped, return None), the others go on to the summarizer.
generate_summary ==
    /\ impl = "main" /\ pc = "generate_summary"
    /\ LET skip == total_text_length(result) < SUMMARY_MIN_LENGTH
       IN  \E r \in StoreOutcomes(ProgressCalls) :
             /\ CountFault(r) /\ Raise(transcription_id, r, "store")
             /\ IF skip
                THEN update_progress(transcription_id, "summary_skipped", 92, r)
                ELSE update_progress(transcription_id, "summarizing", 90, r)
             /\ pc' = IF r # "ok" THEN "handle_error"
                      ELSE IF skip THEN "saving" ELSE "summarize_transcription"
             /\ Throw(r)
    /\ summary' = None
    /\ UNCHANGED <<tailFrame, timing, active, resultKey, summaryKey, result, files, exit>>

\* TranscriptionService.summarize_transcription and lines 151-157: the
\* summary, or (None, error_msg) when the collaborator raises.
summarize_transcription ==
    /\ impl = "main" /\ pc = "summarize_transcription"
    /\ IF env[transcription_id].summarizer = "fail"
       THEN pc' = "summary_failed" /\ summary' = None
       ELSE pc' = "summarization_complete" /\ summary' = "a summary"
    /\ UNCHANGED <<tailFrame, store, result, files, exc, raised, failedAt, exit,
                   storeFaults>>

\* _generate_summary, lines 155-157
summary_failed == Report("summary_failed", "summary_failed", 92, "saving")

\* _generate_summary, line 159
summarization_complete == Timing("summarization_complete", "summarization_complete", "summary_complete")

\* _generate_summary, lines 160-163
summary_complete == Report("summary_complete", "summary_complete", 94, "saving")

\* _save_results, line 121
saving == Report("saving", "saving", 95, "save_results")

\* _save_results, lines 124-130: result_data
result_data(ttl) ==
    [shape |-> "success", ttl |-> ttl, summary |-> summary, segments |-> result]

\* _save_results, lines 132-133: set, then expire
save_results ==
    /\ impl = "main" /\ pc = "save_results"
    /\ \E r \in StoreOutcomes({"set", "expire"}) :
         /\ CountFault(r) /\ Raise(transcription_id, r, "store")
         /\ resultKey' =
              IF r = "set" THEN resultKey
              ELSE [resultKey EXCEPT ![transcription_id] =
                      result_data(IF r = "expire" THEN NoTTL ELSE RESULT_TTL)]
         /\ pc' = IF r = "ok" THEN "total_duration" ELSE "handle_error"
         /\ Throw(r)
    /\ UNCHANGED <<tailFrame, events, statusKey, timing, active, summaryKey, result,
                   summary, files, exit>>

\* _complete_job, line 171
total_duration == Timing("total_duration", "total_duration", "complete_job")

\* ProgressTracker.complete_job with the job statistics of lines 174-180:
\* srem, hset completion_time, set and expire of the summary key.
complete_job ==
    /\ impl = "main" /\ pc = "complete_job"
    /\ \E r \in StoreOutcomes({"srem", "hset", "set", "expire"}) :
         /\ CountFault(r) /\ Raise(transcription_id, r, "store")
         /\ active' = IF r = "srem" THEN active ELSE active \ {transcription_id}
         /\ timing' = IF r \in {"srem", "hset"} THEN timing
                      ELSE [timing EXCEPT ![transcription_id] = @ \cup {"completion_time"}]
         /\ summaryKey' =
              IF r \in {"srem", "hset", "set"} THEN summaryKey
              ELSE [summaryKey EXCEPT ![transcription_id] =
                      [segments |-> Len(result),
                       speakers |-> get_speaker_count(result),
                       ttl |-> IF r = "expire" THEN NoTTL ELSE RESULT_TTL]]
         /\ pc' = IF r = "ok" THEN "completed" ELSE "handle_error"
         /\ Throw(r)
    /\ UNCHANGED <<tailFrame, events, statusKey, resultKey, result, summary, files, exit>>

\* _complete_job, lines 183-184
completed == Report("completed", "completed", 100, "cleanup_temp_file")

\* StorageManager.cleanup_temp_file (os.remove inside try/except), then
\* process_transcription_job returns.
cleanup_temp_file ==
    /\ impl = "main" /\ pc = "cleanup_temp_file"
    /\ \/ files' = files \ {transcription_id}
       \/ UNCHANGED files
    /\ pc' = "brpop"
    /\ exit' = [exit EXCEPT ![transcription_id] = "returned"]
    /\ UNCHANGED <<tailFrame, store, result, summary, exc, raised, failedAt, storeFaults>>

TailNext ==
    \/ diarizing \/ perform_diarization \/ diarize_failed \/ finalizing
    \/ diarization_complete \/ generate_summary \/ summarize_transcription
    \/ summary_failed \/ summarization_complete \/ summary_complete \/ saving
    \/ save_results \/ total_duration \/ complete_job \/ completed
    \/ cleanup_temp_file
    \/ handle_error \/ progress_handle_error \/ error_data

TailSpec == TailInit /\ [][TailNext]_vars

\* ======================================================================
\* TranscriptionService._create_speaker_segments (and the same loop of
\* src/worker.py, lines 197-226) on its own: MergeSpec applies it to every
\* labelled transcript of up to MaxWords words.
\* ======================================================================
\* the texts of the words, by position; a word may also have the empty text
Letters == <<"a", "b", "c", "d">>

\* What a word of the input may look like: its text empty or not, its
\* speaker, and whether the engine gave it timestamps.
WordShapes ==
    [text : {"w", ""}, speaker : SpeakerLabels, timed : {TRUE}]
    \cup { [text |-> "w", speaker |-> None, timed |-> FALSE] }

\* the word of shape sh at position k of the transcript
ShapedWord(sh, k) ==
    Word(IF sh.text = "" THEN "" ELSE Letters[k],
         IF sh.timed THEN k - 1 ELSE Untimed,
         IF sh.timed THEN k ELSE Untimed,
         sh.speaker)

\* The source segments of the words ws when the transcript is cut after
\* the positions in cuts.
RECURSIVE Chop(_, _, _)
Chop(ws, cuts, from) ==
    IF from > Len(ws) THEN <<>>
    ELSE LET to == CHOOSE t \in from..Len(ws) :
                       /\ t \in cuts \/ t = Len(ws)
                       /\ \A u \in from..(t - 1) : u \notin cuts
         IN  <<Segment("", ws[from].start, ws[to].end, Absent, SubSeq(ws, from, to))>>
             \o Chop(ws, cuts, to + 1)

\* Every labelled transcript of 1..MaxWords words, cut into source segments
\* in every way, with or without a wordless source segment in front.
MergeInputs ==
    UNION { { (IF lead THEN <<Segment("", 0, 0, Absent, <<>>)>> ELSE <<>>)
              \o Chop([k \in 1..n |-> ShapedWord(shapes[k], k)], cuts, 1) :
                shapes \in [1..n -> WordShapes],
                cuts \in SUBSET (1..(n - 1)),
                lead \in BOOLEAN } : n \in 1..MaxWords }

MergeInit ==
    /\ impl = "main"
    /\ queue = <<>>
    /\ env = [i \in Ids |-> Healthy]
    /\ pc = "create_speaker_segments"
    /\ job = NoJob
    /\ exc = "none"
    /\ transcription_id = NoId
    /\ result \in MergeInputs
    /\ transcribed = [i \in Ids |-> IF i = 1 THEN result ELSE <<>>]
    /\ summary = None
    /\ events = [i \in Ids |-> <<>>]
    /\ statusKey = [i \in Ids |-> NoKey]
    /\ timing = [i \in Ids |-> {}]
    /\ active = {}
    /\ resultKey = [i \in Ids |-> NoResult]
    /\ summaryKey = [i \in Ids |-> NoSummary]
    /\ dbStatus = [i \in Ids |-> "pending"]
    /\ dbSegments = [i \in Ids |-> <<>>]
    /\ speaker_count = Undefined
    /\ files = {}
    /\ sent = [i \in Ids |-> NoJob]
    /\ raised = [i \in Ids |-> {}]
    /\ failedAt = [i \in Ids |-> "none"]
    /\ exit = [i \in Ids |-> "none"]
    /\ storeFaults = 0

\* _create_speaker_segments(result): result["segments"] = new_segments, or
\* the exception of a word access (result["segments"] is then untouched).
create_speaker_segments ==
    /\ pc = "create_speaker_segments"
    /\ LET merged == _create_speaker_segments(result)
       IN  IF merged.error
           THEN pc' = "raised" /\ exc' = "KeyError" /\ UNCHANGED result
           ELSE pc' = "merged" /\ exc' = "none" /\ result' = merged.segments
    /\ UNCHANGED <<tailFrame, store, summary, files, raised, failedAt, exit, storeFaults>>

MergeNext == create_speaker_segments

MergeSpec == MergeInit /\ [][MergeNext]_vars

\* ----------------------------------------------------------------------
\* The merger on words with arbitrary times: TimingSpec.
\* ----------------------------------------------------------------------
Times == 0..MaxTime

\* The transcript of n words, each with text or without, said by a
\* speaker, with a start and an end, cut into source segments after the
\* positions in cuts.
TimedInput(n, text, start, end, speaker, cuts) ==
    Chop([k \in 1..n |->
            Word(IF text[k] THEN Letters[k] ELSE "", start[k], end[k], speaker[k])],
         cuts, 1)

TimingInit ==
    /\ impl = "main"
    /\ queue = <<>>
    /\ env = [i \in Ids |-> Healthy]
    /\ pc = "create_speaker_segments"
    /\ job = NoJob
    /\ exc = "none"
    /\ transcription_id = NoId
    \* 1..MaxWords words of two speakers (the first said by A), with any
    \* times, cut in every way
    /\ \E n \in 1..MaxWords :
       \E text \in [1..n -> BOOLEAN], start \in [1..n -> Times],
          end \in [1..n -> Times], speaker \in [1..n -> {"A", "B"}],
          cuts \in SUBSET (1..(n - 1)) :
            /\ speaker[1] = "A"
            /\ result = TimedInput(n, text, start, end, speaker, cuts)
    /\ transcribed = [i \in Ids |-> IF i = 1 THEN result ELSE <<>>]
    /\ summary = None
    /\ events = [i \in Ids |-> <<>>]
    /\ statusKey = [i \in Ids |-> NoKey]
    /\ timing = [i \in Ids |-> {}]
    /\ active = {}
    /\ resultKey = [i \in Ids |-> NoResult]
    /\ summaryKey = [i \in Ids |-> NoSummary]
    /\ dbStatus = [i \in Ids |-> "pending"]
    /\ dbSegments = [i \in Ids |-> <<>>]
    /\ speaker_count = Undefined
    /\ files = {}
    /\ sent = [i \in Ids |-> NoJob]
    /\ raised = [i \in Ids |-> {}]
    /\ failedAt = [i \in Ids |-> "none"]
    /\ exit = [i \in Ids |-> "none"]
    /\ storeFaults = 0

TimingSpec == TimingInit /\ [][MergeNext]_vars

\* ======================================================================
\* The texts of the failure reports: MessageSpec.
\* An exception with the message str(e) = exc reaches one of the places that
\* report a failure (pc names the place); the place builds its text and
\* publishes it.  Texts are strings, s[:n] is Truncate(s, n).
MaxMessage == 210

\* the messages str(e): every length from 0 to MaxMessage characters
ExceptionMessages == { Text(n) : n \in 0..MaxMessage }

\* a slice that keeps one character more: s[:n + 1]
Truncate_one_more(s, n) == SubSeq(s, 1, IF Len(s) < n + 1 THEN Len(s) ELSE n + 1)

\* the slice s[:n]: the first n characters of s, all of s if it is shorter
Truncate(s, n) == SubSeq(s, 1, IF Len(s) < n THEN Len(s) ELSE n)

\* update_progress, lines 12-18: the payload with its message
progress_data(status, progress, message) ==
    [status |-> status, progress |-> progress, message |-> message]

ReportSites ==
    [main |-> {"handle_error", "perform_diarization", "summarize_transcription"},
     legacy |-> {"worker_except", "worker_diarize"}]

MessageInit ==
    /\ impl \in {"main", "legacy"}
    /\ pc \in ReportSites[impl]
    /\ exc \in ExceptionMessages
    /\ queue = <<>>
    /\ env = [i \in Ids |-> Healthy]
    /\ job = NoJob
    /\ transcription_id = 1
    /\ result = <<>>
    /\ transcribed = [i \in Ids |-> <<>>]
    /\ summary = None
    /\ events = [i \in Ids |-> <<>>]
    /\ statusKey = [i \in Ids |-> NoKey]
    /\ timing = [i \in Ids |-> {}]
    /\ active = {1}
    /\ resultKey = [i \in Ids |-> NoResult]
    /\ summaryKey = [i \in Ids |-> NoSummary]
    /\ dbStatus = [i \in Ids |-> "pending"]
    /\ dbSegments = [i \in Ids |-> <<>>]
    /\ speaker_count = Undefined
    /\ files = {}
    /\ sent = [i \in Ids |-> NoJob]
    /\ raised = [i \in Ids |-> {}]
    /\ failedAt = [i \in Ids |-> "none"]
    /\ exit = [i \in Ids |-> "none"]
    /\ storeFaults = 0

messageFrame ==
    <<impl, queue, env, job, exc, transcription_id, timing, summaryKey, dbSegments,
      result, summary, speaker_count, transcribed, files, sent, raised, failedAt,
      exit, storeFaults>>

\* update_progress with the message: publish, set, expire
PublishMessage(status, progress, message) ==
    LET data == progress_data(status, progress, message) IN
    /\ events' = [events EXCEPT ![transcription_id] = Append(@, data)]
    /\ statusKey' = [statusKey EXCEPT ![transcription_id] =
                       [event |-> data, ttl |-> STATUS_TTL]]

\* _handle_error: error_message = str(error)[:200] goes into the error
\* event, and into the error field of the result key
handle_error_message ==
    /\ impl = "main" /\ pc = "handle_error"
    /\ LET error_message == Truncate(exc, 200) IN
       /\ PublishMessage("error", NoProgress, "Error: " \o error_message)
       /\ active' = active \ {transcription_id}
       /\ resultKey' = [resultKey EXCEPT ![transcription_id] =
                          [shape |-> "error", ttl |-> RESULT_TTL,
                           error |-> error_message]]
    /\ pc' = "reported"
    /\ UNCHANGED <<messageFrame, dbStatus>>

\* perform_diarization returns (transcription_result, str(e)); line 105,
\* if error:, reports it cut to 100 characters, an empty one goes on to
\* finalizing
diarize_failed_message ==
    /\ impl = "main" /\ pc = "perform_diarization"
    /\ LET error == exc IN
       IF error # ""
       THEN PublishMessage("diarize_failed", 75,
                           "Speaker identification failed: " \o Truncate(error, 100))
       ELSE PublishMessage("finalizing", 85, "Diarization complete")
    /\ pc' = "reported"
    /\ UNCHANGED <<messageFrame, active, resultKey, dbStatus>>

\* summarize_transcription returns (None, "Summarization failed: " + str(e));
\* line 154 reports it cut to 100 characters
summary_failed_message ==
    /\ impl = "main" /\ pc = "summarize_transcription"
    /\ LET error == "Summarization failed: " \o exc IN
       PublishMessage("summary_failed", 92,
                      "Summary generation failed: " \o Truncate(error, 100))
    /\ pc' = "reported"
    /\ UNCHANGED <<messageFrame, active, resultKey, dbStatus>>

\* worker.py, the except of the job: error_message = str(e)[:200] goes into
\* the error event and the row of the job
worker_except_message ==
    /\ impl = "legacy" /\ pc = "worker_except"
    /\ LET error_message == Truncate(exc, 200) IN
       /\ PublishMessage("error", NoProgress, "Error: " \o error_message)
       /\ active' = active \ {transcription_id}
       /\ dbStatus' = [dbStatus EXCEPT ![transcription_id] = "error"]
    /\ pc' = "reported"
    /\ UNCHANGED <<messageFrame, resultKey>>

\* worker.py, the except of the diarization: str(e)[:100]
worker_diarize_failed_message ==
    /\ impl = "legacy" /\ pc = "worker_diarize"
    /\ PublishMessage("diarize_failed", 75,
                      "Speaker identification failed: " \o Truncate(exc, 100))
    /\ pc' = "reported"
    /\ UNCHANGED <<messageFrame, active, resultKey, dbStatus>>

MessageNext ==
    \/ handle_error_message
    \/ diarize_failed_message
    \/ summary_failed_message
    \/ worker_except_message
    \/ worker_diarize_failed_message

MessageSpec == MessageInit /\ [][MessageNext]_vars

\* ======================================================================
\* Several worker processes (src/src/main.py) against one store: ConcSpec.
\* Every worker runs the loop of main.py with its own JobProcessor; the
\* store executes one command at a time, so the commands of different
\* workers interleave freely.  A job is either in the queue (entry "loop")
\* or held by a worker whose _transcribe_audio has just returned (entry
\* "tail", the state at line 43).  No store call raises here.
\* ======================================================================
MaxWorkers == 2
Workers == 1..MaxWorkers

\* a store command on the keys of transcription id
Command(op, id, arg) == [op |-> op, id |-> id, arg |-> arg]

\* ProgressTracker.update_progress: publish, set, expire
progress_commands(id, status, progress) ==
    << Command("publish", id, Event(status, progress)),
       Command("set_status", id, Event(status, progress)),
       Command("expire_status", id, STATUS_TTL) >>

\* ProgressTracker.track_timing
timing_commands(id, event) == << Command("hset", id, event) >>

\* _handle_error: the error event, ProgressTracker.handle_error and the
\* error result
handle_error_commands(id) ==
    progress_commands(id, "error", NoProgress)
    \o << Command("srem", id, None) >>
    \o timing_commands(id, "error_time")
    \o << Command("set_result", id, ErrorResult(NoTTL)),
          Command("expire_result", id, RESULT_TTL) >>

\* process_transcription_job, lines 43-58, for the result segments: the
\* commands sent between the return of _transcribe_audio and the return of
\* process_transcription_job.
tail_commands(m, e, segments) ==
    LET id == m.id IN
    (IF m.isSpeakerDiarized
     THEN progress_commands(id, "diarizing", 70)
          \o (IF e.diarizer = "fail"
              THEN progress_commands(id, "diarize_failed", 75)
              ELSE progress_commands(id, "finalizing", 85)
                   \o timing_commands(id, "diarization_complete"))
     ELSE <<>>)
    \o (IF total_text_length(segments) < SUMMARY_MIN_LENGTH
        THEN progress_commands(id, "summary_skipped", 92)
        ELSE progress_commands(id, "summarizing", 90)
             \o (IF e.summarizer = "fail"
                 THEN progress_commands(id, "summary_failed", 92)
                 ELSE timing_commands(id, "summarization_complete")
                      \o progress_commands(id, "summary_complete", 94)))
    \o progress_commands(id, "saving", 95)
    \o << Command("set_result", id,
                  [shape |-> "success", ttl |-> NoTTL,
                   summary |-> IF total_text_length(segments) >= SUMMARY_MIN_LENGTH
                                  /\ e.summarizer = "ok"
                               THEN "a summary" ELSE None,
                   segments |-> segments]),
          Command("expire_result", id, RESULT_TTL) >>
    \o timing_commands(id, "total_duration")
    \o << Command("srem", id, None) >>
    \o timing_commands(id, "completion_time")
    \o << Command("set_summary", id,
                  [segments |-> Len(segments),
                   speakers |-> get_speaker_count(segments), ttl |-> NoTTL]),
          Command("expire_summary", id, RESULT_TTL) >>
    \o progress_commands(id, "completed", 100)
    \o << Command("remove", id, None) >>

\* process_transcription_job, lines 28-42, for a message taken from the
\* queue: the commands up to the download or the transcription call that
\* raises, then those of _handle_error.
loop_commands(m, e) ==
    LET id == m.id IN
    timing_commands(id, "start_time")
    \o << Command("sadd", id, None) >>
    \o progress_commands(id, "started", 0)
    \o progress_commands(id, "downloading", 5)
    \o << Command("tmpfile", id, None) >>
    \o (IF e.download = "fail"
        THEN handle_error_commands(id)
        ELSE timing_commands(id, "download_complete")
             \o progress_commands(id, "processing", 10)
             \o progress_commands(id, "analyzing", 15)
             \o progress_commands(id, "loading_model", 20)
             \o progress_commands(id, "transcribing", 25)
             \o (IF "transcribe_with_groq" \in TranscriptionServiceMethods
                 THEN <<>>
                 ELSE handle_error_commands(id)))

\* the commands of the job with this id, from where its worker takes it up
Program(id) ==
    IF env[id].entry = "tail"
    THEN tail_commands(sent[id], env[id], transcribed[id])
    ELSE loop_commands(sent[id], env[id])

\* the removal of a member from transcription:active_jobs that empties the set
srem_all(members, id) == {}

\* redis srem on transcription:active_jobs
srem(members, id) == members \ {id}

\* The store as one value, and what one command makes of it.
Store ==
    [events |-> events, statusKey |-> statusKey, timing |-> timing,
     active |-> active, resultKey |-> resultKey, summaryKey |-> summaryKey,
     files |-> files]

Write(s, c) ==
    CASE c.op = "publish" ->
           [s EXCEPT !.events[c.id] = Append(@, c.arg)]
      [] c.op = "set_status" ->
           [s EXCEPT !.statusKey[c.id] = [event |-> c.arg, ttl |-> NoTTL]]
      [] c.op = "expire_status" ->
           [s EXCEPT !.statusKey[c.id].ttl = c.arg]
      [] c.op = "hset" ->
           [s EXCEPT !.timing[c.id] = @ \cup {c.arg}]
      [] c.op = "sadd" ->
           [s EXCEPT !.active = @ \cup {c.id}]
      [] c.op = "srem" ->
           [s EXCEPT !.active = srem(@, c.id)]
      [] c.op = "set_result" ->
           [s EXCEPT !.resultKey[c.id] = c.arg]
      [] c.op = "expire_result" ->
           [s EXCEPT !.resultKey[c.id].ttl = c.arg]
      [] c.op = "set_summary" ->
           [s EXCEPT !.summaryKey[c.id] = c.arg]
      [] c.op = "expire_summary" ->
           [s EXCEPT !.summaryKey[c.id].ttl = c.arg]
      [] c.op = "tmpfile" ->
           [s EXCEPT !.files = @ \cup {c.id}]
      [] c.op = "remove" ->
           [s EXCEPT !.files = @ \ {c.id}]

\* what the job with this id finds in the store when its worker takes it up
StartStore(holds) ==
    [events |-> [i \in Ids |-> IF i \in holds THEN TranscribedEvents ELSE <<>>],
     statusKey |->
        [i \in Ids |-> IF i \in holds
                       THEN [event |-> Event("post_processing", 65), ttl |-> STATUS_TTL]
                       ELSE NoKey],
     timing |-> [i \in Ids |-> IF i \in holds
                               THEN {"start_time", "download_complete",
                                     "transcription_complete"}
                               ELSE {}],
     active |-> holds,
     resultKey |-> [i \in Ids |-> NoResult],
     summaryKey |-> [i \in Ids |-> NoSummary],
     files |-> holds]

ConcEnvs ==
    [entry : {"loop", "tail"}, download : {"ok", "fail"},
     diarizer : {"ok", "fail"}, summarizer : {"ok", "fail"}]

\* what _transcribe_audio returned for the jobs held at line 43: a short
\* transcript and one that reaches the summary threshold
ConcTranscripts ==
    { <<Segment("hi", 0, 1, Absent, <<>>)>>,
      <<Segment(Text(SUMMARY_MIN_LENGTH), 0, 9, Absent, <<>>)>> }

Idle == [entry |-> "idle", k |-> 0]

\* How a job stands when the workers start: in the queue, or held at line
\* 43 with the result of _transcribe_audio.  What the job's commands do not
\* depend on is fixed.
JobSetups ==
    { u \in [env : ConcEnvs, isSpeakerDiarized : BOOLEAN,
             result : ConcTranscripts \cup {<<>>}] :
        IF u.env.entry = "loop"
        THEN /\ u.env.diarizer = "ok" /\ u.env.summarizer = "ok"
             /\ u.result = <<>>
        ELSE /\ u.env.download = "ok"
             /\ u.result # <<>>
             /\ ~u.isSpeakerDiarized => u.env.diarizer = "ok"
             /\ total_text_length(u.result) < SUMMARY_MIN_LENGTH
                   => u.env.summarizer = "ok" }

RECURSIVE Queued(_)
\* the messages of the jobs with entry "loop", by id
Queued(n) ==
    IF n = 0 THEN <<>>
    ELSE IF env[n].entry = "loop" THEN Append(Queued(n - 1), sent[n])
         ELSE Queued(n - 1)

RECURSIVE Held(_)
\* the messages of the jobs with entry "tail", by id
Held(n) ==
    IF n = 0 THEN <<>>
    ELSE IF env[n].entry = "tail" THEN Append(Held(n - 1), sent[n])
         ELSE Held(n - 1)

ConcInit ==
    /\ impl = "main"
    /\ \E setup \in [Ids -> JobSetups] :
         /\ sent = [i \in Ids |->
                      [id |-> i, kind |-> "job",
                       isSpeakerDiarized |-> setup[i].isSpeakerDiarized]]
         /\ env = [i \in Ids |-> setup[i].env]
         /\ transcribed = [i \in Ids |-> setup[i].result]
    \* every job at line 43 is held by a worker of its own; the workers
    \* being interchangeable, the first ones hold them, in the order of ids
    /\ Len(Held(MaxMsgs)) <= MaxWorkers
    /\ job = [w \in Workers |-> IF w <= Len(Held(MaxMsgs)) THEN Held(MaxMsgs)[w]
                                ELSE NoJob]
    /\ queue = Queued(MaxMsgs)
    /\ transcription_id = [w \in Workers |-> job[w].id]
    /\ pc = [w \in Workers |-> IF job[w] = NoJob THEN Idle
                               ELSE [entry |-> "tail", k |-> 1]]
    /\ LET s == StartStore({ i \in Ids : env[i].entry = "tail" })
       IN  /\ events = s.events
           /\ statusKey = s.statusKey
           /\ timing = s.timing
           /\ active = s.active
           /\ resultKey = s.resultKey
           /\ summaryKey = s.summaryKey
           /\ files = s.files
    /\ exc = "none"
    /\ result = <<>>
    /\ summary = None
    /\ dbStatus = [i \in Ids |-> "pending"]
    /\ dbSegments = [i \in Ids |-> <<>>]
    /\ speaker_count = Undefined
    /\ raised = [i \in Ids |-> {}]
    /\ failedAt = [i \in Ids |-> "none"]
    /\ exit = [i \in Ids |-> "none"]
    /\ storeFaults = 0

concFrame == <<impl, env, exc, dbStatus, dbSegments, result, summary, speaker_count,
               transcribed, sent, raised, failedAt, storeFaults>>

\* main, lines 20-28 in worker w: brpop hands the last message of the queue
\* to one worker; json.loads and the reads of job_data touch no shared
\* state.
worker_takes(w) ==
    /\ impl = "main" /\ pc[w] = Idle /\ queue # <<>>
    /\ job' = [job EXCEPT ![w] = queue[Len(queue)]]
    /\ transcription_id' = [transcription_id EXCEPT ![w] = queue[Len(queue)].id]
    /\ queue' = SubSeq(queue, 1, Len(queue) - 1)
    /\ pc' = [pc EXCEPT ![w] = [entry |-> "loop", k |-> 1]]
    /\ UNCHANGED <<concFrame, store, files, exit>>

\* Worker w sends its next command; after the last one
\* process_transcription_job returns and the worker is back at brpop.
worker_sends(w) ==
    /\ impl = "main" /\ pc[w] # Idle
    /\ \E program \in {Program(transcription_id[w])} :
       \E s \in {Write(Store, program[pc[w].k])} :
           /\ events' = s.events
           /\ statusKey' = s.statusKey
           /\ timing' = s.timing
           /\ active' = s.active
           /\ resultKey' = s.resultKey
           /\ summaryKey' = s.summaryKey
           /\ files' = s.files
           /\ IF pc[w].k = Len(program)
              THEN /\ pc' = [pc EXCEPT ![w] = Idle]
                   /\ exit' = [exit EXCEPT ![transcription_id[w]] = "returned"]
              ELSE /\ pc' = [pc EXCEPT ![w] = [entry |-> @.entry, k |-> @.k + 1]]
                   /\ UNCHANGED exit
    /\ UNCHANGED <<concFrame, queue, job, transcription_id>>

ConcNext == \E w \in Workers : worker_takes(w) \/ worker_sends(w)

ConcSpec == ConcInit /\ [][ConcNext]_vars

\* ======================================================================
\* Properties
\* ======================================================================
\* The status of the last event published for a job ("none": no event).
LastStatus(id) ==
    IF events[id] = <<>> THEN "none" ELSE events[id][Len(events[id])].status

Published(id, status) ==
    \E k \in 1..Len(events[id]) : events[id][k].status = status

\* The worker is done with the message: control is back at the head of the
\* loop, or the process has ended.
Ended(id) == exit[id] # "none"

WellFormed(id) == sent[id].kind = "job"

\* The steps of the fatal stages: download, transcription, persistence.
DownloadSteps == {"download_audio_file", "fget_object"}
TranscriptionSteps == {"transcribe_with_groq", "load_model", "transcribe"}
PersistenceSteps == {"update_completed", "insert_segments"}
FatalSteps == DownloadSteps \cup TranscriptionSteps \cup PersistenceSteps

\* The steps that are Progress Tracker operations (report, record_timing,
\* mark_started, mark_completed) of the pipeline.
TrackerSteps ==
    {"track_job_start", "start_time", "sadd", "started", "downloading",
     "download_complete", "processing", "analyzing", "loading_model",
     "model_loaded", "transcribing", "transcription_complete",
     "post_processing", "diarizing", "diarize_failed", "saving",
     "completion_time", "summary", "completed", "srem"}

\* The rows the database holds for the segments of a transcript.
Rows(segments) == [i \in 1..Len(segments) |-> Row(segments[i])]

\* C1: a well-formed job of the JobProcessor worker for which no
\* collaborator call raised has, once the worker is done with it, completed
\* as its last status and a success-shaped result under its result key.
C1_SuccessfulJobCompletes ==
    \A id \in Ids :
        (impl = "main" /\ WellFormed(id) /\ Ended(id) /\ raised[id] = {})
            => /\ LastStatus(id) = "completed"
               /\ resultKey[id].shape = "success"

\* C2: once the JobProcessor worker is done with a well-formed job message,
\* the last status published for it is completed or error (collaborator
\* calls return or raise).
C2_EndsInTerminalState ==
    \A id \in Ids :
        (impl = "main" /\ WellFormed(id) /\ Ended(id))
            => LastStatus(id) \in {"completed", "error"}

\* C3: a job that requests diarization, whose diarization collaborator fails
\* and whose other collaborators work, ends completed, never error, with a
\* success result saved.
C3_DiarizationFailureStillCompletes ==
    \A id \in Ids :
        (/\ impl = "main" /\ WellFormed(id) /\ sent[id].isSpeakerDiarized
         /\ env[id].diarizer = "fail"
         /\ Ended(id) /\ raised[id] = {})
            => /\ LastStatus(id) = "completed"
               /\ ~Published(id, "error")
               /\ resultKey[id].shape = "success"

\* C4: a job whose summarization collaborator fails and whose other
\* collaborators work is not aborted: it ends completed with a success
\* result saved, and no error event.
C4_SummaryFailureStillCompletes ==
    \A id \in Ids :
        (/\ impl = "main" /\ WellFormed(id)
         /\ env[id].summarizer = "fail"
         /\ Ended(id) /\ raised[id] = {})
            => /\ LastStatus(id) = "completed"
               /\ ~Published(id, "error")
               /\ resultKey[id].shape = "success"

\* C5: when the download fails (and nothing else raises), the job ends in
\* error and no temporary file of the job is left on disk once the job has
\* ended.
C5_DownloadFailureLeavesNoFile ==
    \A id \in Ids :
        (Ended(id) /\ failedAt[id] \in DownloadSteps /\ raised[id] = {"download"})
            => /\ LastStatus(id) = "error"
               /\ id \notin files

\* C6: when a stage after a successful download fails (here transcription
\* or persistence, no store call raising), the temporary file has been
\* removed by the time the job has reached the error state.
C6_FileReleasedOnError ==
    \A id \in Ids :
        (/\ Published(id, "processing")
         /\ failedAt[id] \in TranscriptionSteps \cup PersistenceSteps
         /\ raised[id] \cap {"store", "store_in_handler"} = {}
         /\ LastStatus(id) = "error" /\ Ended(id))
            => id \notin files

\* The error record of a job: JobProcessor writes the error-shaped result
\* under the result key with its expiry; worker.py sets the job's row of
\* table transcriptions to status 'error'.
ErrorRecorded(id) ==
    IF impl = "main"
    THEN resultKey[id] = [shape |-> "error", ttl |-> 86400 * 7]
    ELSE dbStatus[id] = "error"

\* No later stage ran: never a completed event, no saving event after a
\* download or transcription failure, no success result.
NoLaterStage(id) ==
    /\ ~Published(id, "completed")
    /\ failedAt[id] \notin PersistenceSteps => ~Published(id, "saving")
    /\ resultKey[id].shape # "success"

HandlerWritesReturned(id) ==
    raised[id] \cap {"store_in_handler", "db_error_status"} = {}

C8_LoopNeverTerminated == pc # "crashed"

\* An exception raised by a write of the error handling of JobProcessor has
\* left _handle_error.
LeftHandleError ==
    /\ impl = "main" /\ pc = "loop_except"
    /\ exc \in {"handle_error", "progress_handle_error", "error_data"}

\* C9: a failure of a write that records the job's error is swallowed: it
\* never leaves the error handler.
C9_SecondaryFailureSwallowed == ~LeftHandleError

\* C10: a failure of a Progress Tracker operation does not abort the job:
\* no pipeline of the JobProcessor worker is ever ended by the exception of
\* a tracker step.
C10_TrackerFailureSwallowed ==
    \A id \in Ids : impl = "main" => failedAt[id] \notin TrackerSteps

\* C11: once the terminal event (completed or error) of a job has been
\* published, no step of the worker publishes a further event for that job
\* id, whatever messages the worker handles later (no store call failing).
C11_NothingAfterTerminalEvent ==
    [][\A id \in Ids :
          (LastStatus(id) \in {"completed", "error"} /\ storeFaults' = 0)
              => events'[id] = events[id]]_vars

\* The steps of process_transcription_job between track_job_start and the
\* error handling.
InFlightSteps ==
    {"started", "downloading", "download_audio_file", "download_complete",
     "processing", "analyzing", "loading_model", "transcribing",
     "transcribe_with_groq"}

\* C12: a job id is in the active-job set exactly while the job is in
\* flight: it is in the set at every step between its start and its terminal
\* handling, and once the job has ended with completed or error it is not in
\* the set.
C12_ActiveExactlyWhileInFlight ==
    \A id \in Ids :
        impl = "main" =>
            /\ (job.id = id /\ pc \in InFlightSteps) => id \in active
            /\ (Ended(id) /\ LastStatus(id) \in {"completed", "error"})
                    => id \notin active

\* C13: for a job that does not request diarization, the segments saved in
\* the result are the segments of the transcription, in order, with the same
\* text, start and end, each carrying the speaker label "Speaker 1".
C13_UndiarizedSegmentsVerbatim ==
    \A id \in Ids :
        (~sent[id].isSpeakerDiarized /\ resultKey[id].shape = "success")
            => LET saved == resultKey[id].segments
                   source == transcribed[id]
               IN  /\ Len(saved) = Len(source)
                   /\ \A k \in 1..Len(saved) :
                        /\ saved[k].text = source[k].text
                        /\ saved[k].start = source[k].start
                        /\ saved[k].end = source[k].end
                        /\ saved[k].speaker = "Speaker 1"

\* The words of a transcript, in order.
RECURSIVE Flatten(_)
Flatten(segments) ==
    IF segments = <<>> THEN <<>>
    ELSE Head(segments).words \o Flatten(Tail(segments))

\* The number of maximal runs of consecutive words of words[k..] with the
\* same speaker that have a non-empty text; speaker is the speaker of the
\* run that words[k] may continue, text whether that run has text so far.
RECURSIVE RunsFrom(_, _, _, _)
RunsFrom(words, k, speaker, text) ==
    IF k > Len(words) THEN (IF text THEN 1 ELSE 0)
    ELSE IF k > 1 /\ words[k].speaker # speaker
         THEN (IF text THEN 1 ELSE 0)
              + RunsFrom(words, k + 1, words[k].speaker, words[k].word # "")
         ELSE RunsFrom(words, k + 1, words[k].speaker, text \/ words[k].word # "")

Runs(words) == RunsFrom(words, 1, None, FALSE)

\* C14: the number of output segments of the merger equals the number of
\* maximal runs of consecutive same-speaker words of the input (runs with
\* empty text excluded), however the words are spread over source segments
\* (stated for the inputs whose words all carry a speaker label).
C14_OneSegmentPerRun ==
    LET words == Flatten(transcribed[1])
    IN  (pc = "merged" /\ \A k \in 1..Len(words) : words[k].speaker # None)
            => Len(result) = Runs(words)

\* strings joined with single spaces
RECURSIVE Join(_)
Join(strings) ==
    IF strings = <<>> THEN ""
    ELSE IF Len(strings) = 1 THEN Head(strings)
    ELSE Head(strings) \o " " \o Join(Tail(strings))

\* the texts of the output segments, and of the input's words, joined
OutputText == Join([k \in 1..Len(result) |-> result[k].text])
InputText ==
    LET words == Flatten(transcribed[1])
    IN  Join([k \in 1..Len(words) |-> words[k].word])

\* C15 as stated: for any input, the texts of the output segments joined
\* with single spaces are the words of the input joined with single spaces.
C15_TextReproducedForAnyInput ==
    pc = "merged" => OutputText = InputText

\* every word of the input has a non-empty text
WordsHaveText ==
    LET words == Flatten(transcribed[1])
    IN  \A k \in 1..Len(words) : words[k].word # ""

\* C15 (amended): for any input on which the merger returns and whose words
\* all have a non-empty text, the texts of the output segments joined with
\* single spaces reproduce the words of the input in their order.
C15_TextReproduced ==
    (pc = "merged" /\ WordsHaveText) => OutputText = InputText

\* three words with text merged into more than one segment, nothing lost
C15_Witness ==
    /\ pc = "merged" /\ WordsHaveText
    /\ Len(Flatten(transcribed[1])) = 3 /\ Len(result) = 2
    /\ OutputText = "a b c"

\* The output segments of the merger taken as words (text, start, end and
\* speaker as stored).
AsWords(segments) ==
    [k \in 1..Len(segments) |->
        Word(segments[k].text, segments[k].start, segments[k].end,
             segments[k].speaker)]

\* C16: the merger is idempotent: merging its own output again, each output
\* segment taken as one word, gives the same list of segments, however
\* these words are spread over source segments (stated for the inputs whose
\* words have text).
C16_MergerIdempotent ==
    (pc = "merged" /\ result # <<>> /\ WordsHaveText)
        => \A cuts \in SUBSET (1..(Len(result) - 1)) :
             LET again == _create_speaker_segments(Chop(AsWords(result), cuts, 1))
             IN  ~again.error /\ again.segments = result

\* C17: the summary is skipped exactly when the texts of the segments have
\* fewer than 500 characters in total: summary_skipped is published, no
\* summarizing event, no summarizer call and no summary for a shorter
\* transcript; from 500 characters on summarizing is published and the
\* summarizer is called.
C17_SummarySkippedBelowThreshold ==
    LET total == total_text_length(result) IN
    /\ Published(1, "summary_skipped") =>
          /\ total < SUMMARY_MIN_LENGTH
          /\ ~Published(1, "summarizing")
          /\ summary = None
    /\ Published(1, "summarizing") => total >= SUMMARY_MIN_LENGTH
    /\ pc \in {"summarize_transcription", "summary_failed", "summarization_complete",
               "summary_complete"} =>
          /\ total >= SUMMARY_MIN_LENGTH
          /\ Published(1, "summarizing")
    /\ (pc = "saving" /\ total < SUMMARY_MIN_LENGTH) =>
          LastStatus(1) = "summary_skipped"
    /\ (pc = "saving" /\ total >= SUMMARY_MIN_LENGTH) =>
          LastStatus(1) \in {"summary_complete", "summary_failed"}

\* C17 (witness): a transcript of 499 characters went through
\* _generate_summary and was skipped.
C17_Witness ==
    /\ pc = "saving"
    /\ total_text_length(result) = SUMMARY_MIN_LENGTH - 1
    /\ LastStatus(1) = "summary_skipped"

\* C17 (boundary): a transcript of exactly 500 characters is handed to the
\* summarizer.
C17_AttemptedAtThreshold ==
    /\ pc = "summarize_transcription"
    /\ total_text_length(result) = SUMMARY_MIN_LENGTH
    /\ LastStatus(1) = "summarizing"

RECURSIVE RunFrom(_, _, _)
\* the store after the commands from the k-th on, sent one after the other
RunFrom(s, commands, k) ==
    IF k > Len(commands) THEN s
    ELSE CHOOSE t \in { RunFrom(next, commands, j) :
                          next \in {Write(s, commands[k])}, j \in {k + 1} } : TRUE

\* the store after the job with this id ran with no other job around
Alone(id) ==
    CHOOSE t \in { RunFrom(s, program, 1) :
                     s \in {StartStore(IF env[id].entry = "tail" THEN {id} ELSE {})},
                     program \in {Program(id)} } : TRUE

\* the entries of the store that belong to the job with this id
Entries(s, id) ==
    [events |-> s.events[id], statusKey |-> s.statusKey[id],
     timing |-> s.timing[id], resultKey |-> s.resultKey[id],
     summaryKey |-> s.summaryKey[id], active |-> id \in s.active]

\* a step changes the entries of a job only when it is a command of the
\* worker that handles this job
OwnEntriesOnly ==
    \A id \in Ids :
        Entries(Store, id)' # Entries(Store, id)
            => \E w \in Workers :
                  /\ pc[w] # Idle /\ transcription_id[w] = id
                  /\ pc'[w] # pc[w]

\* the entries of every finished job are those of its run alone
FinalAsAlone ==
    \A id \in Ids : exit[id] = "returned" =>
        \A alone \in {Alone(id)} : Entries(Store, id) = Entries(alone, id)

\* C18: with several workers on jobs of distinct ids, every write changes
\* only the status key, timing map, result key, summary key and active-set
\* membership of the writing worker's own job, and under every
\* interleaving a finished job's entries are those of the job run alone.
C18_WritesPartitionedByJob == [][OwnEntriesOnly /\ FinalAsAlone']_vars

\* C18 (witness): job 1 has finished with its result stored and left the
\* active set while job 2 is in flight, has published events and is still
\* a member of the active set.
C18_Witness ==
    /\ pc \in [Workers -> [entry : {"idle", "loop", "tail"}, k : Nat]]
    /\ exit[1] = "returned" /\ exit[2] = "none"
    /\ resultKey[1].shape = "success" /\ 1 \notin active
    /\ 2 \in active /\ Len(events[2]) >= 2
    /\ \E w \in Workers : pc[w] # Idle /\ transcription_id[w] = 2
    /\ \A alone \in {Alone(1)} : Entries(Store, 1) = Entries(alone, 1)

\* the status key a completed report of the job's latest event leaves
LatestStored(id) ==
    [event |-> events[id][Len(events[id])], ttl |-> STATUS_TTL]

\* C19 (as stated): the status key of a job always equals the most
\* recently published event of that job, with its 24-hour expiry.
C19_StatusKeyAlwaysLatest ==
    \A id \in Ids : events[id] # <<>> => statusKey[id] = LatestStored(id)

\* C19: after each report that completes (it published and none of its
\* store calls raised), the job's status key holds exactly the event just
\* published and carries the 24-hour expiry.
C19_StatusKeyAfterCompletedReport ==
    [][\A id \in Ids :
          (events'[id] # events[id] /\ storeFaults' = storeFaults)
              => statusKey'[id] = LatestStored(id)']_vars

\* C19 (witness): a later report has completed and replaced the event an
\* earlier report had stored.
C19_Witness ==
    \E id \in Ids :
        /\ Len(events[id]) >= 2
        /\ events[id][Len(events[id])] # events[id][Len(events[id]) - 1]
        /\ statusKey[id] = LatestStored(id)
        /\ statusKey[id].ttl = 86400

\* The orders of statuses of a job in which no stage fails: with or
\* without the diarization stages, with the summary made or skipped.
FixedOrders(diarized) ==
    { TranscribedEvents
      \o (IF diarized THEN <<Event("diarizing", 70), Event("finalizing", 85)>>
          ELSE <<>>)
      \o <<summarized>>
      \o <<Event("saving", 95), Event("completed", 100)>> :
        summarized \in {Event("summarizing", 90), Event("summary_skipped", 92)} }

IsPrefix(s, t) == Len(s) <= Len(t) /\ s = SubSeq(t, 1, Len(s))

\* C20: for a job in which no stage fails the published statuses follow
\* the fixed order started(0), downloading(5), processing(10),
\* analyzing(15), loading_model(20), transcribing(25), post_processing(65),
\* diarizing(70) and finalizing(85) only when diarization is requested,
\* summarizing(90) or summary_skipped(92), saving(95), completed(100):
\* what is published is at every moment a prefix of this order, and the
\* whole of it when the job has ended.
C20_StagesInFixedOrder ==
    \A id \in Ids :
        (impl = "main" /\ WellFormed(id) /\ raised[id] = {}) =>
            /\ \E order \in FixedOrders(sent[id].isSpeakerDiarized) :
                  IsPrefix(events[id], order)
            /\ Ended(id) => events[id] \in FixedOrders(sent[id].isSpeakerDiarized)

\* C20, from the return of the transcription on: with healthy
\* collaborators the statuses published after post_processing(65) continue
\* the fixed order.
C20_TailStagesInFixedOrder ==
    (raised[1] = {} /\ env[1] = Healthy
     /\ (job.isSpeakerDiarized => LastStatus(1) # "diarize_failed"
                                  /\ ~Published(1, "diarize_failed")))
        => \E order \in FixedOrders(job.isSpeakerDiarized) :
              IsPrefix(events[1], order)

\* C21: on successful completion the job's summary record is stored before
\* the job id leaves the active set: in no state is a completing job (its
\* success result is saved) absent from the active set while its summary
\* record is not stored.
C21_SummaryStoredBeforeLeavingActive ==
    \A id \in Ids :
        (env[id].entry = "tail" /\ resultKey[id].shape = "success" /\ id \notin active)
            => summaryKey[id] # NoSummary

\* The positions of the input's words merged into an output segment: word
\* k of the input starts at k - 1 and ends at k, so a segment from start to
\* end holds the words start + 1 .. end.
WordsOf(segment) == (segment.start + 1)..segment.end

\* C22: a new output segment starts whenever a word's speaker label
\* differs from the previous word's label, also when the previous word had
\* no label and across source segments; so all words merged into one
\* output segment carry the speaker label of the segment (stated for the
\* inputs whose words have text).
C22_SegmentWordsShareLabel ==
    LET words == Flatten(transcribed[1])
    IN  (pc = "merged" /\ WordsHaveText) =>
            \A i \in 1..Len(result) : \A k \in WordsOf(result[i]) :
                words[k].speaker = result[i].speaker

\* segment is made of the consecutive words a..b of words: their first
\* start, their last end, their texts joined by single spaces
MadeOf(segment, words, a, b) ==
    /\ segment.start = words[a].start
    /\ segment.end = words[b].end
    /\ segment.text = Join([k \in 1..(b - a + 1) |-> words[a + k - 1].word])

\* every output segment is made of a run of consecutive words of the input
SegmentsMadeOfWords ==
    LET words == Flatten(transcribed[1])
    IN  \A i \in 1..Len(result) :
            \E a \in 1..Len(words) : \E b \in a..Len(words) :
                MadeOf(result[i], words, a, b)

\* C23 as stated: for every output segment of the merger, on any input,
\* start is the start of the first word merged into it, end the end of the
\* last word merged into it, and text those words joined by single spaces.
C23_SegmentFieldsForAnyInput == pc = "merged" => SegmentsMadeOfWords

\* C23 (amended): the same, for the inputs whose words all have a
\* non-empty text.
C23_SegmentFields == (pc = "merged" /\ WordsHaveText) => SegmentsMadeOfWords

\* C23 (witness): an output segment made of two words, followed by another
\* segment.
C23_Witness ==
    /\ pc = "merged" /\ WordsHaveText
    /\ Len(result) = 2
    /\ MadeOf(result[1], Flatten(transcribed[1]), 1, 2)
    /\ result[1].text = "a b"

\* the words of the input have start <= end and non-decreasing starts
WordsInTimeOrder ==
    LET words == Flatten(transcribed[1])
    IN  /\ \A k \in 1..Len(words) : words[k].start <= words[k].end
        /\ \A k \in 1..(Len(words) - 1) : words[k].start <= words[k + 1].start

\* C24: given input words with start <= end and non-decreasing start
\* times, every output segment of the merger has a non-empty text and
\* start <= end, and the output segments are in non-decreasing order of
\* start; whatever the input, no chunk is appended with an empty text.
C24_SegmentsWellFormed ==
    pc = "merged" =>
        /\ \A i \in 1..Len(result) : result[i].text # ""
        /\ WordsInTimeOrder =>
              /\ \A i \in 1..Len(result) : result[i].start <= result[i].end
              /\ \A i \in 1..(Len(result) - 1) : result[i].start <= result[i + 1].start

\* C24 (witness): three words in time order, two of them starting
\* together and one without text, merged into two segments.
C24_Witness ==
    LET words == Flatten(transcribed[1])
    IN  /\ pc = "merged" /\ WordsInTimeOrder
        /\ Len(words) = 3 /\ Len(result) = 2
        /\ \E k \in 1..2 : words[k].start = words[k + 1].start
        /\ \E k \in 1..3 : words[k].word = ""
        /\ result[1].start < result[2].start

\* C25: whenever the diarization collaborator fails, whatever the text of
\* the failure (an empty message included), diarize_failed(75) is
\* published, finalizing(85) is not, and no error event is published for
\* the job (stated for a store whose calls return).
C25_DiarizationFailureReported ==
    (job.isSpeakerDiarized /\ env[1].diarizer = "fail" /\ raised[1] = {}) =>
        /\ ~Published(1, "finalizing")
        /\ ~Published(1, "error")
        /\ pc \notin {"diarizing", "perform_diarization", "diarize_failed"}
              => Published(1, "diarize_failed")

\* C26: the speaker count written in a job's final summary is the number of
\* distinct non-empty speaker labels across that job's final segments, for
\* every job of a sequence handled by one worker.
C26_SpeakerCountOfOwnSegments ==
    [][\A id \in Ids :
          (summaryKey'[id] # summaryKey[id] /\ summaryKey'[id] # NoSummary)
              => summaryKey'[id].speakers = get_speaker_count(result)]_vars

\* C26, for the later jobs of a worker whose earlier job counted its
\* speakers: the count written is that of the job's own segments.
C26_SpeakerCountNotStale ==
    [][\A id \in Ids :
          (summaryKey'[id] # summaryKey[id] /\ summaryKey'[id] # NoSummary
           /\ speaker_count # Undefined)
              => summaryKey'[id].speakers = get_speaker_count(result)]_vars

\* C27: once the success result of a job is written to its result key, the
\* result is not overwritten or changed for the rest of the job (its
\* expiry aside): a stored success result is not followed by an
\* error-shaped result under the same key.
C27_SuccessResultKept ==
    [][\A id \in Ids :
          resultKey[id].shape = "success"
              => /\ resultKey'[id].shape = "success"
                 /\ resultKey'[id].segments = resultKey[id].segments
                 /\ resultKey'[id].summary = resultKey[id].summary]_vars

\* C28: words without a speaker label are merged with speaker None, never
\* with "Speaker 1", and a merged segment whose speaker is None is written
\* to the result store with the default label "Speaker 1".
C28_DefaultLabelAtSerialization ==
    (job.isSpeakerDiarized /\ env[1].diarizer = "ok" /\ Published(1, "finalizing")
     /\ resultKey[1].shape = "success")
        => \A k \in 1..Len(result) :
              /\ result[k].speaker # "Speaker 1"
              /\ result[k].speaker = None
                    => resultKey[1].segments[k].speaker = "Speaker 1"

\* C28, for the rows src/worker.py inserts (the expression
\* seg.get("speaker", "Speaker 1") of DatabaseManager.insert_segments): no
\* row is written with speaker None.
C28_RowsCarryDefaultLabel ==
    \A id \in Ids : \A k \in 1..Len(dbSegments[id]) :
        dbSegments[id][k].speaker # None

\* C29: every error text is capped, whatever the length of the exception
\* message: the error text of a job error (the error field of the failure
\* result, and the text that follows "Error: " in the error event) has at
\* most 200 characters, and the failure reason that follows the heading of
\* a diarize_failed or summary_failed message has at most 100.
Heading ==
    [error |-> "Error: ",
     diarize_failed |-> "Speaker identification failed: ",
     summary_failed |-> "Summary generation failed: "]

ReasonOf(data) ==
    SubSeq(data.message, Len(Heading[data.status]) + 1, Len(data.message))

Cap == [error |-> 200, diarize_failed |-> 100, summary_failed |-> 100]

C29_ErrorTextsCapped ==
    \A id \in Ids :
       /\ \A k \in 1..Len(events[id]) :
            LET data == events[id][k] IN
            data.status \in DOMAIN Heading =>
               /\ data.message = Heading[data.status] \o ReasonOf(data)
               /\ Len(ReasonOf(data)) <= Cap[data.status]
       /\ resultKey[id].shape = "error" => Len(resultKey[id].error) <= 200

\* C29, the case: an exception message longer than both caps was reported
\* as a job error, cut to exactly 200 characters
C29_Witness ==
    /\ pc = "reported" /\ Len(exc) > 200
    /\ resultKey[1].shape = "error"
    /\ Len(resultKey[1].error) = 200
    /\ Len(events[1]) = 1 /\ events[1][1].status = "error"
    /\ Len(ReasonOf(events[1][1])) = 200

\* C29, the other cap: a failure reason cut to exactly 100 characters
C29_ReasonCut ==
    /\ pc = "reported" /\ Len(exc) > 100
    /\ Len(events[1]) = 1 /\ events[1][1].status \in {"diarize_failed", "summary_failed"}
    /\ Len(ReasonOf(events[1][1])) = 100

\* C29, read of the whole message: no failure message is longer than its cap
C29_WholeMessageCapped ==
    \A id \in Ids : \A k \in 1..Len(events[id]) :
       events[id][k].status \in DOMAIN Cap =>
          Len(events[id][k].message) <= Cap[events[id][k].status]

\* C30: the percent values of a job's successive progress events, the
\* error events left out, never decrease.
IsReport(event) == event.status # "error"

Percents(id) ==
    LET reports == SelectSeq(events[id], IsReport)
    IN  [k \in 1..Len(reports) |-> reports[k].progress]

NonDecreasing(percents) ==
    \A k \in 1..(Len(percents) - 1) : percents[k] <= percents[k + 1]

C30_PercentsNeverDecrease == \A id \in Ids : NonDecreasing(Percents(id))

====
